---- MODULE Spec2Model ----
(***************************************************************************)
(* Model of the graph / heap toolkit of the repository:                    *)
(*   MinHeap   (src/unnamed/part_000, imported as ./MinHeap.js)            *)
(*   Queue     (src/unnamed/part_003, imported as ./Queue.js)              *)
(*   LinkedList (src/unnamed/part_002, imported as ./LinkedList.js)        *)
(*   Graph, DepthFirstSearch, BreathFirstSearch, dijkstra                  *)
(*             (src/Homeworks/Homework_9/Graph.ts)                         *)
(* Array indices are 0-based as in the source; At(h, i) reads h[i].        *)
(***************************************************************************)
EXTENDS Integers, Sequences, FiniteSets, Bags, TLC

VARIABLES
    \* ---- MinHeap object under test (SpecHeap) ----
    heap,       \* MinHeap.#heap
    args,       \* the constructor's args (<<>> when none were given)
    out,        \* values returned so far by popMin on a non-empty heap
    lastOp,     \* "constructor" | "insert" | "popMin"
    lastRet,    \* <<v>>: the last popMin returned v; <<>>: it returned undefined
    nIns,       \* number of insert calls made so far
    lowInsert,  \* TRUE once insert was given a value below an earlier popMin result
    \* ---- Graph object and the algorithms run on it (SpecDijkstra, SpecBFS) ----
    adj,        \* Graph._adjacencyList: node -> sequence of GraphNode
    phase,      \* "idle" | "build" | "dijkstra" | "bfs" | "done"
    nCalls,     \* number of free addEdge calls made so far
    scriptPos,  \* how many calls of the cityMap script have been considered
    from,       \* dijkstra's from / BreathFirstSearch's startNode
    to,         \* dijkstra's to / BreathFirstSearch's target
    visited,    \* the visited set of the running algorithm
    nodeMap,    \* dijkstra's nodeMap: node -> [dist, prev]
    p_queue,    \* dijkstra's p_queue.#heap
    relaxRuns,  \* node -> number of times dijkstra ran its neighbour loop for it
    queue,      \* BreathFirstSearch's queue, head first
    result,     \* what the algorithm (or the last Graph method) returned
    \* ---- LinkedList object (SpecList, SpecListDelete, SpecChain) ----
    listNodes,  \* the Node objects created so far: identity i -> [data, next], next 0 is null
    listHead,   \* LinkedList._head (0 is null)
    listTail,   \* LinkedList._tail (0 is null)
    listSize,   \* LinkedList._size
    listCall,   \* the last LinkedList call: [op, arg, ret]
    fromCall,   \* the locals of a running LinkedList.from(root) and of its cycle(root)
    \* ---- Queue object (SpecQueue) ----
    queueNodes, \* the Node objects created so far: identity i -> [data, next]
    queueHead,  \* Queue.#head (0 is null)
    queueTail,  \* Queue.#tail (0 is null)
    queueSize,  \* Queue._size
    queueLog,   \* the last Queue call and its result, the values enqueued and the
                \* values dequeued so far in call order, and whether the queue was
                \* refilled after it had been emptied
    \* ---- Stack / MinMaxStack object (SpecMinMaxStack, SpecStackIterator) ----
    stackItems, \* Stack.#stack, bottom first
    minStack,   \* MinMaxStack.#minStack
    maxStack,   \* MinMaxStack.#maxStack
    stackCall,  \* the last Stack call: [op, arg, ret]
    stackIter,  \* the iterator under observation: its closure and what it yielded
    \* ---- BinarySearchTree object (SpecTree) ----
    treeRoot,   \* BinarySearchTree.#root: <<>> is null, a node is <<data, left, right>>
    treeCall,   \* the last BinarySearchTree call: [op, arg, ret]
    \* ---- HashTable object (SpecHashTable) ----
    hashTable,  \* HashTable._table: per bucket <<>> (undefined) or <<list>>
    hashCount,  \* HashTable.count
    hashCall,   \* the last HashTable call: [op, key, ret]
    hashRef     \* reference map of the calls made: key -> <<>> (absent) or <<value>>

heapVars == <<heap, args, out, lastOp, lastRet, nIns, lowInsert>>
graphVars == <<adj, phase, nCalls, scriptPos>>
algoVars == <<from, to, visited, nodeMap, p_queue, relaxRuns, queue, result>>
listVars == <<listNodes, listHead, listTail, listSize, listCall, fromCall>>
queueVars == <<queueNodes, queueHead, queueTail, queueSize, queueLog>>
stackVars == <<stackItems, minStack, maxStack, stackCall, stackIter>>
treeVars == <<treeRoot, treeCall>>
tableVars == <<hashTable, hashCount, hashCall, hashRef>>
otherVars == <<stackVars, treeVars, tableVars>>
structVars == <<listVars, queueVars, otherVars>>
vars == <<heap, args, out, lastOp, lastRet, nIns, lowInsert, adj, phase, nCalls, scriptPos,
          from, to, visited, nodeMap, p_queue, relaxRuns, queue, result,
          listNodes, listHead, listTail, listSize, listCall, fromCall,
          queueNodes, queueHead, queueTail, queueSize, queueLog,
          stackItems, minStack, maxStack, stackCall, stackIter,
          treeRoot, treeCall, hashTable, hashCount, hashCall, hashRef>>

----------------------------------------------------------------------------
\* Bounds of the model.
MaxVal == 3
MaxLen == 3
MaxInserts == 2
MaxWeight == 2
MaxEdges == 2
MaxData == 2
MaxNodes == 4
MaxUnderflow == 2
MaxChain == 5
MaxDepth == 3

\* Greatest depth of a stack that is iterated.
MaxSnapshot == 2

\* Greatest value stored in a BinarySearchTree.
MaxKey == 3

\* Greatest number of buckets of a HashTable, and of entries it is given.
MaxTable == 2
MaxEntries == 3

BoundedSeq(S, n) == UNION {[1..k -> S] : k \in 0..n}

----------------------------------------------------------------------------
\* MinHeap

At(h, i) == h[i + 1]

Swap(h, i, j) == [h EXCEPT ![i + 1] = h[j + 1], ![j + 1] = h[i + 1]]

numericCompare(a, b) == a - b

\* Faulty variant of compareNodes: the signs are exchanged.
compareNodesReversed(a, b) ==
    IF a.weight > b.weight THEN 0 - 1
    ELSE IF a.weight < b.weight THEN 1
    ELSE 0

compareNodes(a, b) ==
    IF a.weight > b.weight THEN 1
    ELSE IF a.weight < b.weight THEN 0 - 1
    ELSE 0

\* this._compare(a, b): cmp names the comparator the heap was constructed with.
Compare(cmp, a, b) ==
    IF cmp = "numeric" THEN numericCompare(a, b) ELSE compareNodes(a, b)

parent(index) == (index - 1) \div 2

leftChild(index) == 2 * index + 1

rightChild(index) == 2 * index + 2

\* Faulty variant of heapifyUp: swaps with the parent at most once.
heapifyUpNoLoop(cmp, h, index) ==
    IF index # 0 /\ Compare(cmp, At(h, parent(index)), At(h, index)) > 0
    THEN Swap(h, parent(index), index)
    ELSE h

RECURSIVE heapifyUp(_, _, _)
heapifyUp(cmp, h, index) ==
    IF index # 0 /\ Compare(cmp, At(h, parent(index)), At(h, index)) > 0
    THEN heapifyUp(cmp, Swap(h, parent(index), index), parent(index))
    ELSE h

\* Faulty variant of heapifyDown: compares the right child with heap[index],
\* not with heap[currMin].
RECURSIVE heapifyDownRightVsIndex(_, _, _)
heapifyDownRightVsIndex(cmp, h, index) ==
    LET heapSize == Len(h)
        left == leftChild(index)
        right == rightChild(index)
        min1 == IF left < heapSize /\ Compare(cmp, At(h, left), At(h, index)) < 0
                THEN left ELSE index
        min2 == IF right < heapSize /\ Compare(cmp, At(h, right), At(h, index)) < 0
                THEN right ELSE min1
    IN  IF min2 # index
        THEN heapifyDownRightVsIndex(cmp, Swap(h, index, min2), min2)
        ELSE h

\* One pass of the while loop per unfolding; currMin = index at the top of each
\* pass (it is index initially and index := currMin after a swap).
RECURSIVE heapifyDown(_, _, _)
heapifyDown(cmp, h, index) ==
    LET heapSize == Len(h)
        left == leftChild(index)
        right == rightChild(index)
        min1 == IF left < heapSize /\ Compare(cmp, At(h, left), At(h, index)) < 0
                THEN left ELSE index
        min2 == IF right < heapSize /\ Compare(cmp, At(h, right), At(h, min1)) < 0
                THEN right ELSE min1
    IN  IF min2 # index
        THEN heapifyDown(cmp, Swap(h, index, min2), min2)
        ELSE h

RECURSIVE buildFrom(_, _, _)
buildFrom(cmp, h, i) ==
    IF i >= 0 THEN buildFrom(cmp, heapifyDown(cmp, h, i), i - 1) ELSE h

\* Faulty variant of the constructor: starts one node too low and never sifts
\* the last internal node.
constructorSkipLast(cmp, a) == buildFrom(cmp, a, (Len(a) \div 2) - 2)

\* new MinHeap(compare, args): heapify-down from floor(n/2)-1 down to 0.
constructor(cmp, a) == buildFrom(cmp, a, (Len(a) \div 2) - 1)

\* Faulty variant of insert: no heapifyUp.
insertNoSift(cmp, h, value) == Append(h, value)

insert(cmp, h, value) == heapifyUp(cmp, Append(h, value), Len(h))

\* Faulty variant of popMin: removes the last element and leaves the root.
popMinDropLast(cmp, h) == IF Len(h) = 0 THEN h ELSE SubSeq(h, 1, Len(h) - 1)

\* Faulty variant of popMin: no heapifyDown.
popMinNoSift(cmp, h) ==
    IF Len(h) = 0 THEN h
    ELSE LET moved == [h EXCEPT ![1] = h[Len(h)]]
         IN  SubSeq(moved, 1, Len(h) - 1)

\* The array left by popMin.  On an empty array, heap[0] = heap[-1] stores
\* undefined at index 0 and pop() removes it again: the array stays empty.
popMinHeap(cmp, h) ==
    IF Len(h) = 0 THEN h
    ELSE LET moved == [h EXCEPT ![1] = h[Len(h)]]
         IN  heapifyDown(cmp, SubSeq(moved, 1, Len(h) - 1), 0)

\* The value popMin returns: heap[0], undefined (<<>>) on an empty array
\* (the guard !this.#heap is never true of an array).
popMinValue(h) == IF Len(h) = 0 THEN <<>> ELSE <<h[1]>>

\* !this.#heap, the guard of popMin: #heap is always an array, and an array
\* is truthy even when it is empty.
heapMissing(h) == FALSE

\* What popMin returns: null behind the guard, else heap[0], which is
\* undefined on an empty array.
popMinReturns(h) ==
    IF heapMissing(h) THEN "null"
    ELSE IF Len(h) = 0 THEN "undefined"
    ELSE "value"

isEmpty(h) == ~(Len(h) > 0)

----------------------------------------------------------------------------
\* The MinHeap object driven by its public operations.

Range(s) == {s[i] : i \in 1..Len(s)}

Count(s, v) == Cardinality({i \in 1..Len(s) : s[i] = v})

SameElements(s, t) ==
    /\ Len(s) = Len(t)
    /\ \A v \in Range(s) \cup Range(t) : Count(s, v) = Count(t, v)

NonDecreasing(s) == \A i, j \in 1..Len(s) : i < j => numericCompare(s[i], s[j]) <= 0

Values == 0..MaxVal

\* The inputs of the constructor: every short sequence of small values, and the
\* sequence of the source's example usage.
ArgSeqs == BoundedSeq(Values, MaxLen) \cup {<<5, 3, 8, 1>>}

GraphIdle ==
    /\ adj = <<>>
    /\ phase = "idle"
    /\ nCalls = 0
    /\ scriptPos = 0

AlgoIdle ==
    /\ from = ""
    /\ to = ""
    /\ visited = {}
    /\ nodeMap = <<>>
    /\ p_queue = <<>>
    /\ relaxRuns = <<>>
    /\ queue = <<>>
    /\ result = [kind |-> "none"]

StackIdle ==
    /\ stackItems = <<>>
    /\ minStack = <<>>
    /\ maxStack = <<>>
    /\ stackCall = [op |-> "idle"]
    /\ stackIter = [state |-> "none"]

TreeIdle ==
    /\ treeRoot = <<>>
    /\ treeCall = [op |-> "idle"]

TableIdle ==
    /\ hashTable = <<>>
    /\ hashCount = 0
    /\ hashCall = [op |-> "idle"]
    /\ hashRef = <<>>

OtherIdle ==
    /\ StackIdle
    /\ TreeIdle
    /\ TableIdle

ListIdle ==
    /\ listNodes = <<>>
    /\ listHead = 0
    /\ listTail = 0
    /\ listSize = 0
    /\ listCall = [op |-> "idle"]
    /\ fromCall = [pc |-> "idle"]

QueueIdle ==
    /\ queueNodes = <<>>
    /\ queueHead = 0
    /\ queueTail = 0
    /\ queueSize = 0
    /\ queueLog = [last |-> "constructor", ret |-> <<>>, enqueued |-> <<>>,
                   dequeued |-> <<>>, refilled |-> FALSE]

HeapIdle ==
    /\ heap = <<>>
    /\ args = <<>>
    /\ out = <<>>
    /\ lastOp = "constructor"
    /\ lastRet = <<>>
    /\ nIns = 0
    /\ lowInsert = FALSE

InitHeap ==
    /\ \E a \in ArgSeqs :
         /\ args = a
         /\ heap = constructor("numeric", a)
    /\ out = <<>>
    /\ lastOp = "constructor"
    /\ lastRet = <<>>
    /\ nIns = 0
    /\ lowInsert = FALSE
    /\ GraphIdle
    /\ AlgoIdle
    /\ ListIdle
    /\ QueueIdle
    /\ OtherIdle

Insert(value) ==
    /\ nIns < MaxInserts
    /\ heap' = insert("numeric", heap, value)
    /\ nIns' = nIns + 1
    /\ lastOp' = "insert"
    /\ lastRet' = <<>>
    /\ lowInsert' = (lowInsert \/ \E i \in 1..Len(out) : value < out[i])
    /\ UNCHANGED <<args, out>>
    /\ UNCHANGED graphVars
    /\ UNCHANGED algoVars
    /\ UNCHANGED structVars

PopMin ==
    /\ heap' = popMinHeap("numeric", heap)
    /\ lastRet' = popMinValue(heap)
    /\ out' = IF Len(heap) = 0 THEN out ELSE Append(out, heap[1])
    /\ lastOp' = "popMin"
    /\ UNCHANGED <<args, nIns, lowInsert>>
    /\ UNCHANGED graphVars
    /\ UNCHANGED algoVars
    /\ UNCHANGED structVars

NextHeap == (\E value \in Values : Insert(value)) \/ PopMin

SpecHeap == InitHeap /\ [][NextHeap]_vars

----------------------------------------------------------------------------
\* Graph

GraphNode(node, weight) == [node |-> node, weight |-> weight]

\* new Graph(): an empty Map.
EmptyGraph == <<>>

\* Faulty variant of addNode: set() also when the key is present.
addNodeOverwrite(g, value) == (value :> <<>>) @@ g

addNode(g, value) ==
    IF value \in DOMAIN g THEN g ELSE (value :> <<>>) @@ g

\* Faulty variant of addEdge: the reciprocal entry is never pushed.
addEdgeOneWay(g, f, t, weight, undirected) ==
    [addNode(addNode(g, f), t) EXCEPT ![f] = Append(@, GraphNode(t, weight))]

addEdge(g, f, t, weight, undirected) ==
    LET g1 == addNode(addNode(g, f), t)
        g2 == [g1 EXCEPT ![f] = Append(@, GraphNode(t, weight))]
    IN  IF undirected
        THEN [g2 EXCEPT ![t] = Append(@, GraphNode(f, weight))]
        ELSE g2

getAllNodes(g) == DOMAIN g

\* The edges as a set: dijkstra only asks whether some edge is negative.
getAllEdges(g) ==
    UNION {{[from |-> n, to |-> g[n][i].node, weight |-> g[n][i].weight] :
                i \in 1..Len(g[n])} : n \in DOMAIN g}

\* getNeighbors(node), read as `neighbors || []`.
getNeighbors(g, node) == IF node \in DOMAIN g THEN g[node] ELSE <<>>

\* The addEdge calls of the cityMap script, in order (all undirected).
CityCalls ==
    << <<"A", "B", 4>>, <<"A", "C", 2>>, <<"B", "C", 1>>, <<"B", "D", 5>>,
       <<"C", "D", 8>>, <<"C", "E", 10>>, <<"D", "E", 2>>, <<"D", "Z", 6>>,
       <<"E", "Z", 3>> >>

RECURSIVE cityMapUpTo(_)
cityMapUpTo(k) ==
    IF k = 0 THEN EmptyGraph
    ELSE addEdge(cityMapUpTo(k - 1), CityCalls[k][1], CityCalls[k][2],
                 CityCalls[k][3], TRUE)

cityMap == cityMapUpTo(Len(CityCalls))

CityNodes == {"A", "B", "C", "D", "E", "Z"}

\* The nodes of the freely built graphs; "" is a falsy key (as 0 is for numbers).
FreeNodes == {"", "A"}

Weights == (0 - 1)..MaxWeight

\* !node
Falsy(node) == node = ""

InitGraph ==
    /\ adj = EmptyGraph
    /\ phase = "build"
    /\ nCalls = 0
    /\ scriptPos = 0
    /\ AlgoIdle
    /\ HeapIdle
    /\ ListIdle
    /\ QueueIdle
    /\ OtherIdle

\* A call of the cityMap script; the calls before it that were not made are omitted.
ScriptAddEdge(k) ==
    /\ phase = "build"
    /\ nCalls = 0
    /\ (scriptPos > 0 \/ adj = EmptyGraph)
    /\ k > scriptPos
    /\ adj' = addEdge(adj, CityCalls[k][1], CityCalls[k][2], CityCalls[k][3], TRUE)
    /\ scriptPos' = k
    /\ UNCHANGED <<phase, nCalls>>
    /\ UNCHANGED algoVars
    /\ UNCHANGED heapVars
    /\ UNCHANGED structVars

AddNode(value) ==
    /\ phase = "build"
    /\ scriptPos = 0
    /\ adj' = addNode(adj, value)
    /\ UNCHANGED <<phase, nCalls, scriptPos>>
    /\ UNCHANGED algoVars
    /\ UNCHANGED heapVars
    /\ UNCHANGED structVars

AddEdge(f, t, weight, undirected) ==
    /\ phase = "build"
    /\ scriptPos = 0
    /\ nCalls < MaxEdges
    /\ adj' = addEdge(adj, f, t, weight, undirected)
    /\ nCalls' = nCalls + 1
    /\ UNCHANGED <<phase, scriptPos>>
    /\ UNCHANGED algoVars
    /\ UNCHANGED heapVars
    /\ UNCHANGED structVars

Build ==
    \/ \E k \in 1..Len(CityCalls) : ScriptAddEdge(k)
    \/ \E value \in FreeNodes : AddNode(value)
    \/ \E f, t \in FreeNodes, weight \in Weights, undirected \in BOOLEAN :
           AddEdge(f, t, weight, undirected)

\* The nodes a caller passes to the algorithms.
Callable == IF scriptPos > 0 THEN CityNodes ELSE FreeNodes

Null == [kind |-> "null"]

TypeError == [kind |-> "TypeError"]

Path(p) == [kind |-> "path", path |-> p]

----------------------------------------------------------------------------
\* dijkstra

\* Faulty variant of negativeEdges: every in place of some.
negativeEdgesEvery(g) == \A edge \in getAllEdges(g) : edge.weight < 0

negativeEdges(g) == \E edge \in getAllEdges(g) : edge.weight < 0

\* Distances: <<d>> is the number d, <<>> is Infinity.
Infinity == <<>>

Plus(d, weight) == IF d = Infinity THEN Infinity ELSE <<d[1] + weight>>

\* Faulty variant of LessThan: <= in place of <.
LessOrEqual(a, b) == a # Infinity /\ (b = Infinity \/ a[1] <= b[1])

\* a < b
LessThan(a, b) == a # Infinity /\ (b = Infinity \/ a[1] < b[1])

initNodeMap(g, f) ==
    [node \in getAllNodes(g) |->
        [dist |-> IF node = f THEN <<0>> ELSE Infinity, prev |-> <<>>]]

\* Faulty variant of the neighbour loop: visited neighbours are relaxed too.
RECURSIVE relaxVisited(_, _, _, _, _, _)
relaxVisited(neighbors, i, selected, vis, nm, pq) ==
    IF i > Len(neighbors) THEN [nodeMap |-> nm, p_queue |-> pq]
    ELSE LET neighbor == neighbors[i]
             curr_weight == nm[neighbor.node].dist
             totalWeight == Plus(nm[selected].dist, neighbor.weight)
         IN  IF LessThan(totalWeight, curr_weight)
             THEN relaxVisited(neighbors, i + 1, selected, vis,
                               [nm EXCEPT ![neighbor.node] =
                                   [dist |-> totalWeight, prev |-> <<selected>>]],
                               insert("compareNodes", pq, neighbor))
             ELSE relaxVisited(neighbors, i + 1, selected, vis, nm, pq)

\* Faulty variant of the neighbour loop: every unvisited neighbour is pushed
\* on the heap, whether its distance improved or not.
RECURSIVE relaxPushesAll(_, _, _, _, _, _)
relaxPushesAll(neighbors, i, selected, vis, nm, pq) ==
    IF i > Len(neighbors) THEN [nodeMap |-> nm, p_queue |-> pq]
    ELSE LET neighbor == neighbors[i]
         IN  IF neighbor.node \in vis
             THEN relaxPushesAll(neighbors, i + 1, selected, vis, nm, pq)
             ELSE LET curr_weight == nm[neighbor.node].dist
                      totalWeight == Plus(nm[selected].dist, neighbor.weight)
                  IN  relaxPushesAll(neighbors, i + 1, selected, vis,
                          IF LessThan(totalWeight, curr_weight)
                          THEN [nm EXCEPT ![neighbor.node] =
                                   [dist |-> totalWeight, prev |-> <<selected>>]]
                          ELSE nm,
                          insert("compareNodes", pq, neighbor))

\* The for loop over the neighbours of the selected node, from position i on.
RECURSIVE relax(_, _, _, _, _, _)
relax(neighbors, i, selected, vis, nm, pq) ==
    IF i > Len(neighbors) THEN [nodeMap |-> nm, p_queue |-> pq]
    ELSE LET neighbor == neighbors[i]
         IN  IF neighbor.node \in vis
             THEN relax(neighbors, i + 1, selected, vis, nm, pq)
             ELSE LET curr_weight == nm[neighbor.node].dist
                      totalWeight == Plus(nm[selected].dist, neighbor.weight)
                  IN  IF LessThan(totalWeight, curr_weight)
                      THEN relax(neighbors, i + 1, selected, vis,
                                 [nm EXCEPT ![neighbor.node] =
                                     [dist |-> totalWeight, prev |-> <<selected>>]],
                                 insert("compareNodes", pq, neighbor))
                      ELSE relax(neighbors, i + 1, selected, vis, nm, pq)

\* The predecessor walk from currNode (<<>> is null) and path.reverse().
Reverse(s) == [i \in 1..Len(s) |-> s[Len(s) + 1 - i]]

RECURSIVE walk(_, _, _)
walk(nm, currNode, path) ==
    IF currNode = <<>> THEN Path(Reverse(path))
    ELSE IF currNode[1] \notin DOMAIN nm THEN TypeError
    ELSE walk(nm, nm[currNode[1]].prev, Append(path, currNode[1]))

DijkstraStart(f, t) ==
    /\ phase = "build"
    /\ from' = f
    /\ to' = t
    /\ IF negativeEdges(adj)
       THEN /\ result' = Null
            /\ phase' = "done"
            /\ UNCHANGED <<visited, nodeMap, p_queue, relaxRuns>>
       ELSE /\ visited' = {}
            /\ nodeMap' = initNodeMap(adj, f)
            /\ p_queue' = insert("compareNodes", constructor("compareNodes", <<>>),
                                 GraphNode(f, 0))
            /\ relaxRuns' = [node \in getAllNodes(adj) \cup {f} |-> 0]
            /\ phase' = "dijkstra"
            /\ UNCHANGED result
    /\ UNCHANGED <<adj, nCalls, scriptPos, queue>>
    /\ UNCHANGED heapVars
    /\ UNCHANGED structVars

\* One pass of the while loop: pop, mark visited, relax the neighbours.
DijkstraPop ==
    /\ phase = "dijkstra"
    /\ ~isEmpty(p_queue)
    /\ LET selectedNode == popMinValue(p_queue)[1]
           vis == visited \cup {selectedNode.node}
           r == relax(getNeighbors(adj, selectedNode.node), 1, selectedNode.node,
                      vis, nodeMap, popMinHeap("compareNodes", p_queue))
       IN  /\ visited' = vis
           /\ nodeMap' = r.nodeMap
           /\ p_queue' = r.p_queue
           /\ relaxRuns' = [relaxRuns EXCEPT ![selectedNode.node] = @ + 1]
    /\ UNCHANGED <<adj, phase, nCalls, scriptPos, from, to, queue, result>>
    /\ UNCHANGED heapVars
    /\ UNCHANGED structVars

DijkstraReturn ==
    /\ phase = "dijkstra"
    /\ isEmpty(p_queue)
    /\ result' = walk(nodeMap, <<to>>, <<>>)
    /\ phase' = "done"
    /\ UNCHANGED <<adj, nCalls, scriptPos, from, to, visited, nodeMap, p_queue,
                   relaxRuns, queue>>
    /\ UNCHANGED heapVars
    /\ UNCHANGED structVars

NextDijkstra ==
    \/ Build
    \/ \E f, t \in Callable : DijkstraStart(f, t)
    \/ DijkstraPop
    \/ DijkstraReturn

SpecDijkstra == InitGraph /\ [][NextDijkstra]_vars

\* dijkstra is sequential code: the while loop takes its next pass while the
\* heap is not empty, and the function returns once it is.
SpecDijkstraFair ==
    SpecDijkstra /\ WF_vars(DijkstraPop \/ DijkstraReturn)

----------------------------------------------------------------------------
\* Queue (as BreathFirstSearch uses it): the chain of nodes from #head, head
\* first, as a sequence of their data; size is its length.

enqueue(q, value) == Append(q, value)

\* The queue left by dequeue().
dequeueRest(q) == IF Len(q) > 0 THEN Tail(q) ELSE q

\* The value dequeue() returns (<<>> is null).
dequeueValue(q) == IF Len(q) > 0 THEN <<Head(q)>> ELSE <<>>

size(q) == Len(q)

----------------------------------------------------------------------------
\* Graph.BreathFirstSearch

\* The for loop over the neighbours of currNode, from position i on.
RECURSIVE bfsVisit(_, _, _, _, _)
bfsVisit(neighbors, i, path, vis, q) ==
    IF i > Len(neighbors) THEN [visited |-> vis, queue |-> q]
    ELSE LET neighbor == neighbors[i]
         IN  IF neighbor.node \notin vis
             THEN bfsVisit(neighbors, i + 1, path, vis \cup {neighbor.node},
                           enqueue(q, [node |-> neighbor.node,
                                       path |-> Append(path, neighbor.node)]))
             ELSE bfsVisit(neighbors, i + 1, path, vis, q)

BFSStart(startNode, target) ==
    /\ phase = "build"
    /\ from' = startNode
    /\ to' = target
    /\ IF Falsy(startNode)
       THEN /\ result' = Null
            /\ phase' = "done"
            /\ UNCHANGED <<visited, queue>>
       ELSE /\ visited' = {startNode}
            /\ queue' = enqueue(<<>>, [node |-> startNode, path |-> <<startNode>>])
            /\ phase' = "bfs"
            /\ UNCHANGED result
    /\ UNCHANGED <<adj, nCalls, scriptPos, nodeMap, p_queue, relaxRuns>>
    /\ UNCHANGED heapVars
    /\ UNCHANGED structVars

\* One pass of the while loop.
BFSStep ==
    /\ phase = "bfs"
    /\ size(queue) > 0
    /\ LET currNode == dequeueValue(queue)[1].node
           path == dequeueValue(queue)[1].path
           r == bfsVisit(getNeighbors(adj, currNode), 1, path, visited,
                         dequeueRest(queue))
       IN  IF currNode = to
           THEN /\ result' = Path(path)
                /\ phase' = "done"
                /\ queue' = dequeueRest(queue)
                /\ UNCHANGED visited
           ELSE /\ visited' = r.visited
                /\ queue' = r.queue
                /\ UNCHANGED <<result, phase>>
    /\ UNCHANGED <<adj, nCalls, scriptPos, from, to, nodeMap, p_queue, relaxRuns>>
    /\ UNCHANGED heapVars
    /\ UNCHANGED structVars

BFSReturn ==
    /\ phase = "bfs"
    /\ ~(size(queue) > 0)
    /\ result' = Null
    /\ phase' = "done"
    /\ UNCHANGED <<adj, nCalls, scriptPos, from, to, visited, nodeMap, p_queue,
                   relaxRuns, queue>>
    /\ UNCHANGED heapVars
    /\ UNCHANGED structVars

NextBFS ==
    \/ Build
    \/ \E startNode, target \in Callable : BFSStart(startNode, target)
    \/ BFSStep
    \/ BFSReturn

SpecBFS == InitGraph /\ [][NextBFS]_vars

----------------------------------------------------------------------------
\* Graph.DepthFirstSearch

\* search(graph, node, path, visited) with the for loop over the neighbours
\* from position i on (searchFrom); both yield [found, visited], where found is
\* <<>> for null and <<path>> for a path, and visited is the shared Set after
\* the call.
RECURSIVE search(_, _, _, _, _)
RECURSIVE searchFrom(_, _, _, _, _, _)
search(graph, node, path, vis, target) ==
    IF Falsy(node) \/ node \in vis THEN [found |-> <<>>, visited |-> vis]
    ELSE IF node = target THEN [found |-> <<path>>, visited |-> vis]
    ELSE searchFrom(graph, getNeighbors(graph, node), 1, path, vis \cup {node}, target)

searchFrom(graph, neighbors, i, path, vis, target) ==
    IF i > Len(neighbors) THEN [found |-> <<>>, visited |-> vis]
    ELSE LET neighbor == neighbors[i]
         IN  IF neighbor.node \notin vis
             THEN LET path_found == search(graph, neighbor.node,
                                           Append(path, neighbor.node), vis, target)
                  IN  IF path_found.found # <<>> THEN path_found
                      ELSE searchFrom(graph, neighbors, i + 1, path,
                                      path_found.visited, target)
             ELSE searchFrom(graph, neighbors, i + 1, path, vis, target)

DepthFirstSearch(adjecencyList, startNode, target) ==
    IF Falsy(startNode) THEN [found |-> <<>>, visited |-> {}]
    ELSE search(adjecencyList, startNode, <<startNode>>, {}, target)

DFSCall(startNode, target) ==
    /\ phase = "build"
    /\ from' = startNode
    /\ to' = target
    /\ LET r == DepthFirstSearch(adj, startNode, target)
       IN  /\ result' = IF r.found = <<>> THEN Null ELSE Path(r.found[1])
           /\ visited' = r.visited
    /\ phase' = "done"
    /\ UNCHANGED <<adj, nCalls, scriptPos, nodeMap, p_queue, relaxRuns, queue>>
    /\ UNCHANGED heapVars
    /\ UNCHANGED structVars

NextDFS ==
    \/ Build
    \/ \E startNode, target \in Callable : DFSCall(startNode, target)

SpecDFS == InitGraph /\ [][NextDFS]_vars

----------------------------------------------------------------------------
\* The Graph methods called one at a time; result records the last call and
\* what it returned.

\* What addNode(value) returns on graph g.
addNodeReturns(g, value) == value \notin DOMAIN g

GraphAddNode(value) ==
    /\ phase = "build"
    /\ adj' = addNode(adj, value)
    /\ result' = [kind |-> "addNode", node |-> value,
                  returned |-> addNodeReturns(adj, value)]
    /\ UNCHANGED <<phase, nCalls, scriptPos>>
    /\ UNCHANGED <<from, to, visited, nodeMap, p_queue, relaxRuns, queue>>
    /\ UNCHANGED heapVars
    /\ UNCHANGED structVars

GraphAddEdge(f, t, weight, undirected) ==
    /\ phase = "build"
    /\ nCalls < MaxEdges
    /\ adj' = addEdge(adj, f, t, weight, undirected)
    /\ nCalls' = nCalls + 1
    /\ result' = [kind |-> "addEdge", from |-> f, to |-> t, weight |-> weight,
                  undirected |-> undirected, returned |-> TRUE]
    /\ UNCHANGED <<phase, scriptPos>>
    /\ UNCHANGED <<from, to, visited, nodeMap, p_queue, relaxRuns, queue>>
    /\ UNCHANGED heapVars
    /\ UNCHANGED structVars

NextGraph ==
    \/ \E value \in FreeNodes : GraphAddNode(value)
    \/ \E f, t \in FreeNodes, weight \in Weights, undirected \in BOOLEAN :
           GraphAddEdge(f, t, weight, undirected)

SpecGraph == InitGraph /\ [][NextGraph]_vars

\* Only addNode and undirected addEdge calls.
NextUndirected ==
    \/ \E value \in FreeNodes : GraphAddNode(value)
    \/ \E f, t \in FreeNodes, weight \in Weights : GraphAddEdge(f, t, weight, TRUE)

SpecUndirected == InitGraph /\ [][NextUndirected]_vars

----------------------------------------------------------------------------
\* LinkedList.  A list object is the record [nodes, head, tail, size]: nodes is
\* the store of Node objects, a Node reference is its index in the store and
\* 0 is null.  Each method yields [list, ret]; ret is <<>> for undefined.

\* new Node(value)
Node(value) == [data |-> value, next |-> 0]

ListValues == 1..MaxData

\* new LinkedList()
EmptyList == [nodes |-> <<>>, head |-> 0, tail |-> 0, size |-> 0]

listInsert(L, value) ==
    LET newNode == Len(L.nodes) + 1
        created == Append(L.nodes, Node(value))
    IN  IF L.head = 0
        THEN [nodes |-> created, head |-> newNode, tail |-> newNode,
              size |-> L.size + 1]
        ELSE [nodes |-> [created EXCEPT ![L.tail].next = newNode], head |-> L.head,
              tail |-> newNode, size |-> L.size + 1]

\* The removal of the head node by delete / deleteBy.
deleteHead(L) ==
    LET h == L.nodes[L.head].next
    IN  [L EXCEPT !.head = h,
                  !.tail = IF h = 0 THEN h ELSE @,
                  !.size = @ - 1]

\* The while loop of delete / deleteBy from curr on; matches is the set of
\* data values the test accepts.
RECURSIVE deleteScan(_, _, _)
deleteScan(L, matches, curr) ==
    LET nxt == L.nodes[curr].next
    IN  IF nxt = 0 THEN [list |-> L, ret |-> FALSE]
        ELSE IF L.nodes[nxt].data \in matches
        THEN LET after == L.nodes[nxt].next
             IN  [list |-> [L EXCEPT !.nodes[curr].next = after,
                                     !.tail = IF after = 0 THEN curr ELSE @,
                                     !.size = @ - 1],
                  ret |-> TRUE]
        ELSE deleteScan(L, matches, nxt)

\* Faulty variant of the while loop: the tail is not updated.
RECURSIVE deleteScanKeepTail(_, _, _)
deleteScanKeepTail(L, matches, curr) ==
    LET nxt == L.nodes[curr].next
    IN  IF nxt = 0 THEN [list |-> L, ret |-> FALSE]
        ELSE IF L.nodes[nxt].data \in matches
        THEN [list |-> [L EXCEPT !.nodes[curr].next = L.nodes[nxt].next,
                                 !.size = @ - 1],
              ret |-> TRUE]
        ELSE deleteScanKeepTail(L, matches, nxt)

\* Faulty variant of delete(value): removing the last node leaves _tail stale.
listDeleteKeepTail(L, value) ==
    IF L.head = 0 THEN [list |-> L, ret |-> FALSE]
    ELSE IF L.nodes[L.head].data = value THEN [list |-> deleteHead(L), ret |-> TRUE]
    ELSE deleteScanKeepTail(L, {value}, L.head)

listDelete(L, value) ==
    IF L.head = 0 THEN [list |-> L, ret |-> FALSE]
    ELSE IF L.nodes[L.head].data = value THEN [list |-> deleteHead(L), ret |-> TRUE]
    ELSE deleteScan(L, {value}, L.head)

\* deleteBy(filterFn); filterFn is given by the set of values it accepts.
listDeleteBy(L, filterFn) ==
    IF L.head = 0 THEN [list |-> L, ret |-> FALSE]
    ELSE IF L.nodes[L.head].data \in filterFn THEN [list |-> deleteHead(L), ret |-> TRUE]
    ELSE deleteScan(L, filterFn, L.head)

\* pop(): the while loop that walks to the node before the last one.
RECURSIVE popWalk(_, _)
popWalk(nodes, curr) ==
    IF nodes[curr].next # 0 /\ nodes[nodes[curr].next].next # 0
    THEN popWalk(nodes, nodes[curr].next)
    ELSE curr

listPop(L) ==
    IF L.tail = 0 \/ L.head = 0 THEN [list |-> L, ret |-> <<>>]
    ELSE LET curr == popWalk(L.nodes, L.head)
         IN  [list |-> [L EXCEPT !.nodes[curr].next = 0,
                                 !.tail = curr,
                                 !.size = @ - 1],
              ret |-> <<L.nodes[L.tail].data>>]

listPeek(L) == IF L.tail = 0 THEN <<>> ELSE <<L.nodes[L.tail].data>>

listPeekFirst(L) == IF L.head = 0 THEN <<>> ELSE <<L.nodes[L.head].data>>

\* shift() returns the removed Node.
listShift(L) ==
    IF L.head = 0 THEN [list |-> L, ret |-> <<>>]
    ELSE [list |-> [L EXCEPT !.head = L.nodes[L.head].next, !.size = @ - 1],
          ret |-> <<L.head>>]

RECURSIVE searchNode(_, _, _)
searchNode(nodes, curr, value) ==
    IF curr = 0 THEN FALSE
    ELSE IF nodes[curr].data = value THEN TRUE
    ELSE searchNode(nodes, nodes[curr].next, value)

listSearch(L, value) == searchNode(L.nodes, L.head, value)

listIsEmpty(L) == L.size = 0

\* The values the iterator yields, from node on.
RECURSIVE iterate(_, _)
iterate(nodes, node) ==
    IF node = 0 THEN <<>>
    ELSE <<nodes[node].data>> \o iterate(nodes, nodes[node].next)

listIterator(L) == iterate(L.nodes, L.head)

\* String(value) for the values of the model.
stringify(value) == IF value \in 0..9 THEN <<"0", "1", "2", "3", "4", "5", "6", "7", "8", "9">>[value + 1] ELSE "?"

\* toString(): "Empty List", or the stringified values that are joined by " -> ".
listToString(L) ==
    IF L.head = 0 THEN <<"Empty List">>
    ELSE [i \in 1..Len(listIterator(L)) |-> stringify(listIterator(L)[i])]

\* The LinkedList object under test.
list == [nodes |-> listNodes, head |-> listHead, tail |-> listTail, size |-> listSize]

SetList(L) ==
    /\ listNodes' = L.nodes
    /\ listHead' = L.head
    /\ listTail' = L.tail
    /\ listSize' = L.size

InitList ==
    /\ listNodes = EmptyList.nodes
    /\ listHead = EmptyList.head
    /\ listTail = EmptyList.tail
    /\ listSize = EmptyList.size
    /\ listCall = [op |-> "constructor", arg |-> <<>>, ret |-> <<>>]
    /\ fromCall = [pc |-> "idle"]
    /\ QueueIdle
    /\ OtherIdle
    /\ HeapIdle
    /\ GraphIdle
    /\ AlgoIdle

ListFrame ==
    /\ UNCHANGED fromCall
    /\ UNCHANGED queueVars
    /\ UNCHANGED heapVars
    /\ UNCHANGED graphVars
    /\ UNCHANGED algoVars
    /\ UNCHANGED otherVars

ListInsert(value) ==
    /\ Len(listNodes) < MaxNodes
    /\ SetList(listInsert(list, value))
    /\ listCall' = [op |-> "insert", arg |-> <<value>>, ret |-> <<>>]
    /\ ListFrame

ListDelete(value) ==
    /\ SetList(listDelete(list, value).list)
    /\ listCall' = [op |-> "delete", arg |-> <<value>>, ret |-> <<listDelete(list, value).ret>>]
    /\ ListFrame

ListDeleteBy(filterFn) ==
    /\ SetList(listDeleteBy(list, filterFn).list)
    /\ listCall' = [op |-> "deleteBy", arg |-> <<filterFn>>,
                    ret |-> <<listDeleteBy(list, filterFn).ret>>]
    /\ ListFrame

\* pop() can lower _size without end; the model stops at -MaxUnderflow.
ListPop ==
    /\ listSize > 0 - MaxUnderflow
    /\ SetList(listPop(list).list)
    /\ listCall' = [op |-> "pop", arg |-> <<>>, ret |-> listPop(list).ret]
    /\ ListFrame

ListShift ==
    /\ SetList(listShift(list).list)
    /\ listCall' = [op |-> "shift", arg |-> <<>>, ret |-> listShift(list).ret]
    /\ ListFrame

NextList ==
    \/ \E value \in ListValues : ListInsert(value)
    \/ \E value \in ListValues : ListDelete(value)
    \/ \E filterFn \in SUBSET ListValues : ListDeleteBy(filterFn)
    \/ ListPop
    \/ ListShift

SpecList == InitList /\ [][NextList]_vars

\* Lists built by insert, with delete and deleteBy calls only.
NextListDelete ==
    \/ \E value \in ListValues : ListInsert(value)
    \/ \E value \in ListValues : ListDelete(value)
    \/ \E filterFn \in SUBSET ListValues : ListDeleteBy(filterFn)

SpecListDelete == InitList /\ [][NextListDelete]_vars

----------------------------------------------------------------------------
\* LinkedList.from(root), with the LinkedList.cycle(root) call it starts with,
\* one loop iteration per step.  fromCall holds the locals:
\*   pc       "floyd": first loop of cycle; "entry": second loop of cycle;
\*            "walk": the while loop of from; "done": from has returned
\*   chain    the node chain as it was handed over
\*   root, slow, fast, cycle, visited, tail, count as in the source (0 is null)

\* A chain of n manually linked nodes root = 1 -> 2 -> ... -> n whose last
\* node points to node back (0: to null).
NodeChain(n, back) ==
    [i \in 1..n |-> [data |-> i, next |-> IF i < n THEN i + 1 ELSE back]]

InitChain ==
    /\ \E n \in 1..MaxChain, back \in 0..MaxChain :
          /\ back <= n
          /\ listNodes = NodeChain(n, back)
          /\ fromCall = [pc |-> "floyd", chain |-> NodeChain(n, back), root |-> 1,
                         slow |-> 1, fast |-> 1, cycle |-> 0, visited |-> FALSE,
                         tail |-> 0, count |-> 0]
    /\ listHead = 0
    /\ listTail = 0
    /\ listSize = 0
    /\ listCall = [op |-> "from", arg |-> <<1>>, ret |-> <<>>]
    /\ QueueIdle
    /\ OtherIdle
    /\ HeapIdle
    /\ GraphIdle
    /\ AlgoIdle

ChainFrame ==
    /\ UNCHANGED listCall
    /\ UNCHANGED queueVars
    /\ UNCHANGED heapVars
    /\ UNCHANGED graphVars
    /\ UNCHANGED algoVars
    /\ UNCHANGED otherVars

\* while (fast && fast.next)
floydCondition(nodes, fast) == fast # 0 /\ nodes[fast].next # 0

\* Faulty variant of the restart: slow stays at the meeting point.
restartAtMeetingPoint(root, slow) == slow

\* slow = root, after the pointers met
restartAtRoot(root, slow) == root

\* const list = Object.create(...); list._head = root; let tail = root; let count = 1
startWalk(cycle) ==
    /\ fromCall' = [fromCall EXCEPT !.pc = "walk", !.cycle = cycle, !.visited = FALSE,
                                    !.tail = fromCall.root, !.count = 1]
    /\ listHead' = fromCall.root

\* One iteration of the first loop of cycle.
FloydStep ==
    /\ fromCall.pc = "floyd"
    /\ floydCondition(listNodes, fromCall.fast)
    /\ LET slow == listNodes[fromCall.slow].next
           fast == listNodes[listNodes[fromCall.fast].next].next
       IN  fromCall' = IF slow = fast
                       THEN [fromCall EXCEPT !.pc = "entry",
                                             !.slow = restartAtRoot(fromCall.root, slow),
                                             !.fast = fast]
                       ELSE [fromCall EXCEPT !.slow = slow, !.fast = fast]
    /\ UNCHANGED <<listNodes, listHead, listTail, listSize>>
    /\ ChainFrame

\* The first loop ends without a meeting: cycle returns null and from goes on.
FloydNoCycle ==
    /\ fromCall.pc = "floyd"
    /\ ~floydCondition(listNodes, fromCall.fast)
    /\ startWalk(0)
    /\ UNCHANGED <<listNodes, listTail, listSize>>
    /\ ChainFrame

\* One iteration of the second loop of cycle.
EntryStep ==
    /\ fromCall.pc = "entry"
    /\ fromCall.slow # fromCall.fast
    /\ fromCall' = [fromCall EXCEPT !.slow = listNodes[fromCall.slow].next,
                                    !.fast = listNodes[fromCall.fast].next]
    /\ UNCHANGED <<listNodes, listHead, listTail, listSize>>
    /\ ChainFrame

\* cycle returns slow and from goes on.
EntryFound ==
    /\ fromCall.pc = "entry"
    /\ fromCall.slow = fromCall.fast
    /\ startWalk(fromCall.slow)
    /\ UNCHANGED <<listNodes, listTail, listSize>>
    /\ ChainFrame

\* Faulty variant of the loop body: the link is cut at the first visit.
walkBodyCutAtFirstVisit(nodes, c) ==
    IF c.cycle # 0 /\ nodes[c.tail].next = c.cycle
    THEN [nodes |-> [nodes EXCEPT ![c.tail].next = 0], call |-> c]
    ELSE [nodes |-> nodes,
          call |-> [c EXCEPT !.tail = nodes[c.tail].next, !.count = @ + 1]]

\* The body of the while loop of from on the locals c; break leaves the loop
\* with tail.next null, where the loop condition ends it as well.
walkBody(nodes, c) ==
    IF c.cycle # 0 /\ nodes[c.tail].next = c.cycle
    THEN IF c.visited
         THEN [nodes |-> [nodes EXCEPT ![c.tail].next = 0], call |-> c]
         ELSE [nodes |-> nodes,
               call |-> [c EXCEPT !.visited = TRUE, !.tail = nodes[c.tail].next,
                                  !.count = @ + 1]]
    ELSE [nodes |-> nodes,
          call |-> [c EXCEPT !.tail = nodes[c.tail].next, !.count = @ + 1]]

WalkStep ==
    /\ fromCall.pc = "walk"
    /\ listNodes[fromCall.tail].next # 0
    /\ listNodes' = walkBody(listNodes, fromCall).nodes
    /\ fromCall' = walkBody(listNodes, fromCall).call
    /\ UNCHANGED <<listHead, listTail, listSize>>
    /\ ChainFrame

\* list._tail = tail; list._size = count; return list
FromReturn ==
    /\ fromCall.pc = "walk"
    /\ listNodes[fromCall.tail].next = 0
    /\ listTail' = fromCall.tail
    /\ listSize' = fromCall.count
    /\ fromCall' = [fromCall EXCEPT !.pc = "done"]
    /\ UNCHANGED <<listNodes, listHead>>
    /\ ChainFrame

NextChain ==
    \/ FloydStep
    \/ FloydNoCycle
    \/ EntryStep
    \/ EntryFound
    \/ WalkStep
    \/ FromReturn

SpecChain == InitChain /\ [][NextChain]_vars

\* A call that has started keeps running.
SpecChainFair == SpecChain /\ WF_vars(NextChain)

----------------------------------------------------------------------------
\* Queue as an object: the record [nodes, head, tail, size] with Node
\* references as for LinkedList.

QueueValues == 1..MaxData

\* Faulty variant of enqueue: the emptiness test reads #tail.
queueEnqueueByTail(Q, value) ==
    LET newNode == Len(Q.nodes) + 1
        created == Append(Q.nodes, Node(value))
    IN  IF Q.tail = 0
        THEN [nodes |-> created, head |-> newNode, tail |-> newNode,
              size |-> Q.size + 1]
        ELSE [nodes |-> [created EXCEPT ![Q.tail].next = newNode], head |-> Q.head,
              tail |-> newNode, size |-> Q.size + 1]

queueEnqueue(Q, value) ==
    LET newNode == Len(Q.nodes) + 1
        created == Append(Q.nodes, Node(value))
    IN  IF Q.head = 0
        THEN [nodes |-> created, head |-> newNode, tail |-> newNode,
              size |-> Q.size + 1]
        ELSE [nodes |-> [created EXCEPT ![Q.tail].next = newNode], head |-> Q.head,
              tail |-> newNode, size |-> Q.size + 1]

\* dequeue() yields [queue, ret]; ret is <<>> for null.
queueDequeue(Q) ==
    IF Q.head # 0
    THEN [queue |-> [Q EXCEPT !.head = Q.nodes[Q.head].next, !.size = @ - 1],
          ret |-> <<Q.nodes[Q.head].data>>]
    ELSE [queue |-> Q, ret |-> <<>>]

\* peek(): <<>> is null.
queuePeek(Q) == IF Q.head # 0 THEN <<Q.nodes[Q.head].data>> ELSE <<>>

\* Faulty variant of isEmpty: the test reads #tail.
queueIsEmptyByTail(Q) == Q.tail = 0

queueIsEmpty(Q) == Q.head = 0

\* The Queue object under test.
queueObject ==
    [nodes |-> queueNodes, head |-> queueHead, tail |-> queueTail, size |-> queueSize]

SetQueue(Q) ==
    /\ queueNodes' = Q.nodes
    /\ queueHead' = Q.head
    /\ queueTail' = Q.tail
    /\ queueSize' = Q.size

InitQueue ==
    /\ QueueIdle
    /\ OtherIdle
    /\ ListIdle
    /\ HeapIdle
    /\ GraphIdle
    /\ AlgoIdle

QueueFrame ==
    /\ UNCHANGED listVars
    /\ UNCHANGED heapVars
    /\ UNCHANGED graphVars
    /\ UNCHANGED algoVars
    /\ UNCHANGED otherVars

Enqueue(value) ==
    /\ Len(queueNodes) < MaxNodes
    /\ SetQueue(queueEnqueue(queueObject, value))
    /\ queueLog' = [queueLog EXCEPT
                       !.last = "enqueue",
                       !.ret = <<>>,
                       !.enqueued = Append(@, value),
                       !.refilled = @ \/ (queueHead = 0 /\ queueLog.dequeued # <<>>)]
    /\ QueueFrame

Dequeue ==
    /\ SetQueue(queueDequeue(queueObject).queue)
    /\ queueLog' = [queueLog EXCEPT
                       !.last = "dequeue",
                       !.ret = queueDequeue(queueObject).ret,
                       !.dequeued = @ \o queueDequeue(queueObject).ret]
    /\ QueueFrame

Peek ==
    /\ UNCHANGED <<queueNodes, queueHead, queueTail, queueSize>>
    /\ queueLog' = [queueLog EXCEPT !.last = "peek", !.ret = queuePeek(queueObject)]
    /\ QueueFrame

NextQueue ==
    \/ \E value \in QueueValues : Enqueue(value)
    \/ Dequeue
    \/ Peek

SpecQueue == InitQueue /\ [][NextQueue]_vars

----------------------------------------------------------------------------
\* Stack and MinMaxStack.  An element is <<v>> for the number v and <<>> for
\* null; arrays keep the bottom first.

StackValues == {<<>>} \cup {<<v>> : v \in 0..MaxData}

\* The number a - b computes with: null converts to 0.
ToNumber(x) == IF x = <<>> THEN 0 ELSE x[1]

\* The comparator of the example usage, (a, b) => a - b.
stackCompare(a, b) == ToNumber(a) - ToNumber(b)

stackPush(st, x) == Append(st, x)

\* Stack.pop(): this.#stack.pop() ?? null, as [stack, ret].
stackPop(st) ==
    IF Len(st) = 0 THEN [stack |-> st, ret |-> <<>>]
    ELSE [stack |-> SubSeq(st, 1, Len(st) - 1), ret |-> st[Len(st)]]

stackIsEmpty(st) == Len(st) = 0

\* array[array.length - 1]; undefined (read as <<>>) on an empty array.
Top(a) == IF Len(a) = 0 THEN <<>> ELSE a[Len(a)]

\* Array.prototype.pop on a shadow array.
DropTop(a) == IF Len(a) = 0 THEN a ELSE SubSeq(a, 1, Len(a) - 1)

\* A MinMaxStack object is the record [stack, minStack, maxStack].
getMin(M) == IF ~stackIsEmpty(M.stack) THEN Top(M.minStack) ELSE <<>>

getMax(M) == IF ~stackIsEmpty(M.stack) THEN Top(M.maxStack) ELSE <<>>

\* Faulty variant of updateMinStack: the comparison is reversed.
updateMinStackReversed(M, value) ==
    IF Len(M.minStack) = 0 \/ stackCompare(value, getMin(M)) > 0
    THEN [M EXCEPT !.minStack = Append(@, value)]
    ELSE [M EXCEPT !.minStack = Append(@, getMin(M))]

updateMinStack(M, value) ==
    IF Len(M.minStack) = 0 \/ stackCompare(value, getMin(M)) < 0
    THEN [M EXCEPT !.minStack = Append(@, value)]
    ELSE [M EXCEPT !.minStack = Append(@, getMin(M))]

updateMaxStack(M, value) ==
    IF Len(M.maxStack) = 0 \/ stackCompare(value, getMax(M)) > 0
    THEN [M EXCEPT !.maxStack = Append(@, value)]
    ELSE [M EXCEPT !.maxStack = Append(@, getMax(M))]

\* The forEach of the constructor over initialValues from position i on.
RECURSIVE seedShadows(_, _, _)
seedShadows(M, initialValues, i) ==
    IF i > Len(initialValues) THEN M
    ELSE seedShadows(updateMaxStack(updateMinStack(M, initialValues[i]),
                                    initialValues[i]),
                     initialValues, i + 1)

\* new MinMaxStack(compare, initialValues)
minMaxConstructor(initialValues) ==
    seedShadows([stack |-> initialValues, minStack |-> <<>>, maxStack |-> <<>>],
                initialValues, 1)

minMaxPush(M, value) ==
    updateMaxStack(updateMinStack([M EXCEPT !.stack = stackPush(@, value)], value),
                   value)

\* MinMaxStack.pop(), as [object, ret].
minMaxPop(M) ==
    LET popped == stackPop(M.stack)
    IN  [object |-> IF popped.ret # <<>>
                    THEN [stack |-> popped.stack, minStack |-> DropTop(M.minStack),
                          maxStack |-> DropTop(M.maxStack)]
                    ELSE [M EXCEPT !.stack = popped.stack],
         ret |-> popped.ret]

\* The MinMaxStack object under test.
minMaxStack == [stack |-> stackItems, minStack |-> minStack, maxStack |-> maxStack]

SetMinMaxStack(M) ==
    /\ stackItems' = M.stack
    /\ minStack' = M.minStack
    /\ maxStack' = M.maxStack

InitMinMaxStack ==
    /\ \E initialValues \in BoundedSeq(StackValues, MaxDepth - 1) :
          /\ stackItems = minMaxConstructor(initialValues).stack
          /\ minStack = minMaxConstructor(initialValues).minStack
          /\ maxStack = minMaxConstructor(initialValues).maxStack
          /\ stackCall = [op |-> "constructor", arg |-> <<>>, ret |-> <<>>]
    /\ stackIter = [state |-> "none"]
    /\ TreeIdle
    /\ TableIdle
    /\ ListIdle
    /\ QueueIdle
    /\ HeapIdle
    /\ GraphIdle
    /\ AlgoIdle

StackFrame ==
    /\ UNCHANGED treeVars
    /\ UNCHANGED tableVars
    /\ UNCHANGED listVars
    /\ UNCHANGED queueVars
    /\ UNCHANGED heapVars
    /\ UNCHANGED graphVars
    /\ UNCHANGED algoVars

\* The shadow arrays can outgrow the stack; the model stops at MaxDepth.
MinMaxPush(value) ==
    /\ Len(minStack) < MaxDepth
    /\ SetMinMaxStack(minMaxPush(minMaxStack, value))
    /\ stackCall' = [op |-> "push", arg |-> value, ret |-> <<>>]
    /\ UNCHANGED stackIter
    /\ StackFrame

MinMaxPop ==
    /\ SetMinMaxStack(minMaxPop(minMaxStack).object)
    /\ stackCall' = [op |-> "pop", arg |-> Top(stackItems), ret |-> minMaxPop(minMaxStack).ret]
    /\ UNCHANGED stackIter
    /\ StackFrame

NextMinMaxStack ==
    \/ \E value \in StackValues : MinMaxPush(value)
    \/ MinMaxPop

SpecMinMaxStack == InitMinMaxStack /\ [][NextMinMaxStack]_vars

----------------------------------------------------------------------------
\* Stack[Symbol.iterator].  stackIter is the iterator closure: idx and
\* stack_items are its captured variables, created is the stack at the time
\* of the call, yielded the values next() has returned with done: false.

\* this.#stack.slice(): a copy, which later pushes and pops do not touch.
slice(st) == [i \in 1..Len(st) |-> st[i]]

\* stack_items[idx] with idx counted from 0; undefined outside the array.
itemAt(items, idx) == IF idx + 1 \in 1..Len(items) THEN items[idx + 1] ELSE <<>>

\* Faulty variant of iteratorNext: reads the stack itself, not the copy.
iteratorNextLive(it, st) ==
    IF it.idx >= 0
    THEN [it EXCEPT !.idx = @ - 1, !.yielded = Append(@, itemAt(st, it.idx)),
                    !.state = "active"]
    ELSE [it EXCEPT !.state = "done"]

\* next() of the iterator object; st is the stack at the time of the call.
iteratorNext(it, st) ==
    IF it.idx >= 0
    THEN [it EXCEPT !.idx = @ - 1, !.yielded = Append(@, itemAt(it.stack_items, it.idx)),
                    !.state = "active"]
    ELSE [it EXCEPT !.state = "done"]

\* stack[Symbol.iterator]()
stackIterator(st) ==
    [state |-> "active", idx |-> Len(st) - 1, stack_items |-> slice(st),
     created |-> st, yielded |-> <<>>]

InitStack ==
    /\ stackItems \in BoundedSeq(StackValues, MaxSnapshot)
    /\ minStack = <<>>
    /\ maxStack = <<>>
    /\ stackCall = [op |-> "constructor"]
    /\ stackIter = [state |-> "none"]
    /\ TreeIdle
    /\ TableIdle
    /\ ListIdle
    /\ QueueIdle
    /\ HeapIdle
    /\ GraphIdle
    /\ AlgoIdle

StackPush(x) ==
    /\ Len(stackItems) < MaxSnapshot
    /\ stackItems' = stackPush(stackItems, x)
    /\ stackCall' = [op |-> "push"]
    /\ UNCHANGED <<minStack, maxStack, stackIter>>
    /\ StackFrame

StackPop ==
    /\ stackItems' = stackPop(stackItems).stack
    /\ stackCall' = [op |-> "pop"]
    /\ UNCHANGED <<minStack, maxStack, stackIter>>
    /\ StackFrame

CreateIterator ==
    /\ stackIter' = stackIterator(stackItems)
    /\ stackCall' = [op |-> "iterator"]
    /\ UNCHANGED <<stackItems, minStack, maxStack>>
    /\ StackFrame

IteratorNext ==
    /\ stackIter.state # "none"
    /\ stackIter' = iteratorNext(stackIter, stackItems)
    /\ stackCall' = [op |-> "next"]
    /\ UNCHANGED <<stackItems, minStack, maxStack>>
    /\ StackFrame

NextStack ==
    \/ \E x \in StackValues : StackPush(x)
    \/ StackPop
    \/ CreateIterator
    \/ IteratorNext

SpecStack == InitStack /\ [][NextStack]_vars

----------------------------------------------------------------------------
\* BinarySearchTree.  A tree is <<>> for null and <<data, left, right>> for a
\* TreeNode; the comparator is the numeric one of the example usage.

TreeKeys == 0..MaxKey

TreeNode(data, left, right) == <<data, left, right>>

treeCompare(a, b) == a - b

\* args.sort(compare): arr with value put in its place among the sorted arr.
RECURSIVE sortedInsert(_, _)
sortedInsert(arr, value) ==
    IF Len(arr) = 0 THEN <<value>>
    ELSE IF treeCompare(value, arr[1]) < 0 THEN <<value>> \o arr
    ELSE <<arr[1]>> \o sortedInsert(Tail(arr), value)

RECURSIVE sort(_)
sort(arr) == IF Len(arr) = 0 THEN arr ELSE sortedInsert(sort(Tail(arr)), arr[1])

RECURSIVE buildBalancedTree(_)
buildBalancedTree(arr) ==
    IF Len(arr) = 0 THEN <<>>
    ELSE LET mid == Len(arr) \div 2
         IN  TreeNode(arr[mid + 1],
                      buildBalancedTree(SubSeq(arr, 1, mid)),
                      buildBalancedTree(SubSeq(arr, mid + 2, Len(arr))))

\* new BinarySearchTree(compare, ...args)
treeConstructor(values) ==
    IF Len(values) # 0 THEN buildBalancedTree(sort(values)) ELSE <<>>

RECURSIVE _insert(_, _)
_insert(node, value) ==
    IF node = <<>> THEN TreeNode(value, <<>>, <<>>)
    ELSE IF treeCompare(value, node[1]) < 0
         THEN TreeNode(node[1], _insert(node[2], value), node[3])
    ELSE IF treeCompare(value, node[1]) > 0
         THEN TreeNode(node[1], node[2], _insert(node[3], value))
    ELSE node

RECURSIVE findMinFromNode(_)
findMinFromNode(node) == IF node[2] # <<>> THEN findMinFromNode(node[2]) ELSE node

\* deleteNode of delete(): the node it returns, with the assignments it made
\* to the fields of the nodes below.
RECURSIVE deleteNode(_, _)
deleteNode(node, target) ==
    IF node = <<>> THEN <<>>
    ELSE IF treeCompare(target, node[1]) < 0
         THEN TreeNode(node[1], deleteNode(node[2], target), node[3])
    ELSE IF treeCompare(target, node[1]) > 0
         THEN TreeNode(node[1], node[2], deleteNode(node[3], target))
    ELSE IF node[2] = <<>> THEN node[3]
    ELSE IF node[3] = <<>> THEN node[2]
    ELSE LET succesorNode == findMinFromNode(node[3])
         IN  TreeNode(succesorNode[1], node[2], deleteNode(node[3], succesorNode[1]))

\* What this.#root refers to after delete(value).  delete() returns the result
\* of deleteNode and never assigns this.#root: the root object stays the root,
\* with the changes deleteNode made inside it.  When the root itself matches
\* and lacks a child, deleteNode returns that child and changes nothing.
treeAfterDelete(root, value) ==
    IF root = <<>> THEN root
    ELSE IF treeCompare(value, root[1]) = 0 /\ (root[2] = <<>> \/ root[3] = <<>>)
         THEN root
    ELSE deleteNode(root, value)

RECURSIVE searchSubtree(_, _)
searchSubtree(node, target) ==
    IF node = <<>> THEN "false"
    ELSE IF treeCompare(target, node[1]) < 0 THEN searchSubtree(node[2], target)
    ELSE IF treeCompare(target, node[1]) > 0 THEN searchSubtree(node[3], target)
    ELSE "true"

\* searchTree(value): "null" on an empty tree.
searchTree(root, value) == IF root = <<>> THEN "null" ELSE searchSubtree(root, value)

InitTree ==
    /\ \E values \in BoundedSeq(TreeKeys, MaxLen) :
          /\ treeRoot = treeConstructor(values)
          /\ treeCall = [op |-> "constructor", value |-> 0, ret |-> <<>>]
    /\ StackIdle
    /\ TableIdle
    /\ ListIdle
    /\ QueueIdle
    /\ HeapIdle
    /\ GraphIdle
    /\ AlgoIdle

TreeFrame ==
    /\ UNCHANGED stackVars
    /\ UNCHANGED tableVars
    /\ UNCHANGED listVars
    /\ UNCHANGED queueVars
    /\ UNCHANGED heapVars
    /\ UNCHANGED graphVars
    /\ UNCHANGED algoVars

TreeInsert(value) ==
    /\ treeRoot' = _insert(treeRoot, value)
    /\ treeCall' = [op |-> "insert", value |-> value, ret |-> <<>>]
    /\ TreeFrame

TreeDelete(value) ==
    /\ treeRoot' = treeAfterDelete(treeRoot, value)
    /\ treeCall' = [op |-> "delete", value |-> value, ret |-> deleteNode(treeRoot, value)]
    /\ TreeFrame

TreeSearch(value) ==
    /\ treeCall' = [op |-> "searchTree", value |-> value, ret |-> <<searchTree(treeRoot, value)>>]
    /\ UNCHANGED treeRoot
    /\ TreeFrame

NextTree ==
    \/ \E value \in TreeKeys : TreeInsert(value)
    \/ \E value \in TreeKeys : TreeDelete(value)
    \/ \E value \in TreeKeys : TreeSearch(value)

SpecTree == InitTree /\ [][NextTree]_vars

----------------------------------------------------------------------------
\* HashTable with separate chaining.  A key is the sequence of its char codes;
\* a bucket is <<>> for undefined and <<L>> for the LinkedList L, whose nodes
\* hold ListNode records [key, value].  A table object is [table, count];
\* this.size is the length of table.  hashRef is the reference map the table
\* is compared with: <<>> for an absent key, <<v>> for the value v.

\* The keys "a", "b" and "ab".
TableKeys == {<<97>>, <<98>>, <<97, 98>>}

\* Two values: enough to tell an overwritten entry from the one before.
TableValues == {1, 2}

ListNode(key, value) == [key |-> key, value |-> value]

\* The for loop of hashFn from position i on.
RECURSIVE hashLoop(_, _, _, _)
hashLoop(input, tableSize, i, hashOutput) ==
    IF i > Len(input) THEN hashOutput
    ELSE hashLoop(input, tableSize, i + 1, (hashOutput * 31 + input[i]) % tableSize)

hashFn(input, tableSize) == hashLoop(input, tableSize, 1, 0)

\* The while loop of LinkedList.find from curr on: the node whose data is
\* returned, 0 for null.  The predicate is node => node.key === key.
RECURSIVE findFrom(_, _, _)
findFrom(nodes, curr, key) ==
    IF curr = 0 THEN 0
    ELSE IF nodes[curr].data.key = key THEN curr
    ELSE findFrom(nodes, nodes[curr].next, key)

listFind(L, key) == findFrom(L.nodes, L.head, key)

\* new HashTable(tableSize)
tableConstructor(tableSize) == [table |-> [i \in 1..tableSize |-> <<>>], count |-> 0]

\* this._table[index] after `if (!this._table[index]) ... = new LinkedList()`.
bucketList(H, index) == IF H.table[index] = <<>> THEN EmptyList ELSE H.table[index][1]

\* Faulty variant of tableInsert: no search for an existing entry.
tableInsertAlways(H, key, value) ==
    LET index == hashFn(key, Len(H.table)) + 1
        bucket == bucketList(H, index)
    IN  [table |-> [H.table EXCEPT ![index] = <<listInsert(bucket, ListNode(key, value))>>],
         count |-> H.count + 1]

\* insert(key, value)
tableInsert(H, key, value) ==
    LET index == hashFn(key, Len(H.table)) + 1
        bucket == bucketList(H, index)
        preexistingEl == listFind(bucket, key)
    IN  IF preexistingEl # 0
        THEN [H EXCEPT !.table[index] =
                           <<[bucket EXCEPT !.nodes[preexistingEl].data.value = value]>>]
        ELSE [table |-> [H.table EXCEPT
                            ![index] = <<listInsert(bucket, ListNode(key, value))>>],
              count |-> H.count + 1]

\* get(key): <<>> for undefined.
tableGet(H, key) ==
    LET index == hashFn(key, Len(H.table)) + 1
    IN  IF H.table[index] = <<>> THEN <<>>
        ELSE LET bucket == H.table[index][1]
                 found == listFind(bucket, key)
             IN  IF found = 0 THEN <<>> ELSE <<bucket.nodes[found].data.value>>

\* delete(key), as [object, ret].
tableDelete(H, key) ==
    LET index == hashFn(key, Len(H.table)) + 1
    IN  IF H.table[index] = <<>> THEN [object |-> H, ret |-> FALSE]
        ELSE LET deleted == listDeleteBy(H.table[index][1],
                                         {ListNode(key, v) : v \in TableValues})
             IN  [object |-> [table |-> [H.table EXCEPT ![index] = <<deleted.list>>],
                              count |-> IF deleted.ret THEN H.count - 1 ELSE H.count],
                  ret |-> deleted.ret]

\* The HashTable object under test.
hashObject == [table |-> hashTable, count |-> hashCount]

SetTable(H) ==
    /\ hashTable' = H.table
    /\ hashCount' = H.count

\* The number of ListNode objects created so far, in the buckets from i on.
RECURSIVE nodesCreatedFrom(_, _)
nodesCreatedFrom(table, i) ==
    IF i > Len(table) THEN 0
    ELSE (IF table[i] = <<>> THEN 0 ELSE Len(table[i][1].nodes))
         + nodesCreatedFrom(table, i + 1)

nodesCreated == nodesCreatedFrom(hashTable, 1)

InitTable ==
    /\ \E tableSize \in 1..MaxTable :
          /\ hashTable = tableConstructor(tableSize).table
          /\ hashCount = tableConstructor(tableSize).count
    /\ hashCall = [op |-> "constructor", key |-> <<>>, ret |-> <<>>, deleted |-> FALSE]
    /\ hashRef = [k \in TableKeys |-> <<>>]
    /\ StackIdle
    /\ TreeIdle
    /\ ListIdle
    /\ QueueIdle
    /\ HeapIdle
    /\ GraphIdle
    /\ AlgoIdle

TableFrame ==
    /\ UNCHANGED stackVars
    /\ UNCHANGED treeVars
    /\ UNCHANGED listVars
    /\ UNCHANGED queueVars
    /\ UNCHANGED heapVars
    /\ UNCHANGED graphVars
    /\ UNCHANGED algoVars

\* At most MaxEntries ListNode objects are created.
TableInsert(key, value) ==
    /\ nodesCreated < MaxEntries \/ tableGet(hashObject, key) # <<>>
    /\ SetTable(tableInsert(hashObject, key, value))
    /\ hashCall' = [op |-> "insert", key |-> key, ret |-> <<>>, deleted |-> FALSE]
    /\ hashRef' = [hashRef EXCEPT ![key] = <<value>>]
    /\ TableFrame

TableGet(key) ==
    /\ hashCall' = [op |-> "get", key |-> key, ret |-> tableGet(hashObject, key),
                    deleted |-> FALSE]
    /\ UNCHANGED <<hashTable, hashCount, hashRef>>
    /\ TableFrame

TableDelete(key) ==
    /\ SetTable(tableDelete(hashObject, key).object)
    /\ hashCall' = [op |-> "delete", key |-> key, ret |-> <<>>,
                    deleted |-> tableDelete(hashObject, key).ret]
    /\ hashRef' = [hashRef EXCEPT ![key] = <<>>]
    /\ TableFrame

NextTable ==
    \/ \E key \in TableKeys, value \in TableValues : TableInsert(key, value)
    \/ \E key \in TableKeys : TableGet(key)
    \/ \E key \in TableKeys : TableDelete(key)

SpecTable == InitTable /\ [][NextTable]_vars

----------------------------------------------------------------------------
\* Reference notions the claims about the graph algorithms are stated with.

\* The edges of g as a set of [from, to, weight] records.
Edges(g) ==
    UNION {{[from |-> n, to |-> g[n][i].node, weight |-> g[n][i].weight] :
                i \in 1..Len(g[n])} : n \in DOMAIN g}

HasNegativeWeight(g) == \E e \in Edges(g) : e.weight < 0

RECURSIVE ReachableFrom(_, _)
ReachableFrom(g, S) ==
    LET T == S \cup {e.to : e \in {x \in Edges(g) : x.from \in S}}
    IN  IF T = S THEN S ELSE ReachableFrom(g, T)

Reachable(g, f, t) == t \in ReachableFrom(g, {f})

HasEdge(g, u, v) == \E e \in Edges(g) : e.from = u /\ e.to = v

\* p is a sequence of nodes from f to t joined by edges of g.
IsPathOf(g, p, f, t) ==
    /\ Len(p) >= 1
    /\ p[1] = f
    /\ p[Len(p)] = t
    /\ \A i \in 1..(Len(p) - 1) : HasEdge(g, p[i], p[i + 1])

Min(S) == CHOOSE x \in S : \A y \in S : x <= y

\* The least weight of an edge from u to v (there may be parallel edges).
EdgeWeight(g, u, v) == Min({e.weight : e \in {x \in Edges(g) : x.from = u /\ x.to = v}})

RECURSIVE PathWeight(_, _)
PathWeight(g, p) ==
    IF Len(p) <= 1 THEN 0
    ELSE EdgeWeight(g, p[1], p[2]) + PathWeight(g, Tail(p))

\* Brute force: the set of [last, w] such that some walk from the walks of P
\* extended by at most k edges ends in last and has total weight w.
RECURSIVE WalksWithin(_, _, _)
WalksWithin(g, P, k) ==
    IF k = 0 THEN P
    ELSE WalksWithin(g,
             P \cup {[last |-> pe[2].to, w |-> pe[1].w + pe[2].weight] :
                        pe \in {x \in P \X Edges(g) : x[2].from = x[1].last}},
             k - 1)

\* The least total weight of a path from f to t (a lightest walk with
\* non-negative weights needs at most |nodes| - 1 edges).
MinDistance(g, f, t) ==
    Min({p.w : p \in {q \in WalksWithin(g, {[last |-> f, w |-> 0]}, Cardinality(DOMAIN g)) :
                         q.last = t}})

\* The least number of nodes of a path from f to t: breadth-first levels.
RECURSIVE LevelOf(_, _, _, _)
LevelOf(g, S, t, k) ==
    IF t \in S THEN k
    ELSE LevelOf(g, S \cup {e.to : e \in {x \in Edges(g) : x.from \in S}}, t, k + 1)

MinNodes(g, f, t) == LevelOf(g, {f}, t, 1)

----------------------------------------------------------------------------
\* C1: with non-negative weights and to reachable from from, dijkstra returns
\* a path from from to to whose total weight is the minimum over all paths
\* (brute-force reference).
C1_DijkstraShortest ==
    (/\ phase = "done"
     /\ ~HasNegativeWeight(adj)
     /\ from \in DOMAIN adj
     /\ Reachable(adj, from, to)) =>
        /\ result.kind = "path"
        /\ IsPathOf(adj, result.path, from, to)
        /\ PathWeight(adj, result.path) = MinDistance(adj, from, to)

\* C2: with non-negative weights and to not reachable from from, dijkstra
\* returns null: it does not throw and returns no path that does not start
\* at from.
C2_UnreachableGivesNull ==
    (/\ phase = "done"
     /\ ~HasNegativeWeight(adj)
     /\ ~Reachable(adj, from, to)) => result = Null

\* C3: dijkstra returns null for every graph with a negative edge weight,
\* whatever from and to are.
C3_NegativeEdgeGivesNull ==
    (phase = "done" /\ HasNegativeWeight(adj)) => result = Null

C3_Witness ==
    /\ phase = "done"
    /\ HasNegativeWeight(adj)
    /\ \E edge \in Edges(adj) : edge.weight >= 0
    /\ from # to
    /\ Reachable(adj, from, to)
    /\ result = Null

\* C4 as stated: the neighbour loop of a node runs in at most one pop of that
\* node (a later pop of a stale entry is skipped).
C4_NeighbourLoopRunsOncePerNode ==
    \A node \in DOMAIN relaxRuns : relaxRuns[node] <= 1

\* C4 amended: popping a stale entry of an already visited node is not
\* skipped but has no effect: it changes no distance or predecessor and
\* pushes nothing on the heap.
C4_StalePopChangesNothing ==
    [][(/\ phase = "dijkstra"
        /\ ~isEmpty(p_queue)
        /\ popMinValue(p_queue)[1].node \in visited) =>
           /\ nodeMap' = nodeMap
           /\ visited' = visited
           /\ p_queue' = popMinHeap("compareNodes", p_queue)]_vars

C4_Witness ==
    /\ phase = "done"
    /\ \E node \in DOMAIN relaxRuns :
         /\ relaxRuns[node] >= 2
         /\ Len(getNeighbors(adj, node)) >= 2

\* C5 as stated: on the cityMap graph the path dijkstra returns from A to Z
\* has total weight 11.
C5_CityMapWeight11 ==
    (phase = "done" /\ adj = cityMap /\ from = "A" /\ to = "Z") =>
        /\ result.kind = "path"
        /\ PathWeight(adj, result.path) = 11

\* C5 amended: on the cityMap graph dijkstra returns A, C, B, D, E, Z from A
\* to Z, whose total weight is 13, the minimum over all paths from A to Z.
C5_CityMapWeight13 ==
    (phase = "done" /\ adj = cityMap /\ from = "A" /\ to = "Z") =>
        /\ result = Path(<<"A", "C", "B", "D", "E", "Z">>)
        /\ PathWeight(adj, result.path) = 13
        /\ MinDistance(adj, "A", "Z") = 13

C5_Witness ==
    /\ phase = "done"
    /\ adj = cityMap
    /\ from = "A"
    /\ to = "Z"
    /\ result.kind = "path"

\* C10: BreathFirstSearch returns null exactly when target is not reachable
\* from start, and otherwise a path from start to target along adjacency-list
\* edges with the fewest nodes among all such paths.
C10_BFSFewestNodes ==
    phase = "done" =>
        /\ (result = Null) <=> ~Reachable(adj, from, to)
        /\ result # Null =>
              /\ result.kind = "path"
              /\ IsPathOf(adj, result.path, from, to)
              /\ Len(result.path) = MinNodes(adj, from, to)

\* The same statement for a start node that is not falsy.
BFSFewestNodesFromTruthyStart == ~Falsy(from) => C10_BFSFewestNodes

BFSFewestNodesFromTruthyStart_Witness ==
    /\ phase = "done"
    /\ result # Null
    /\ Len(result.path) >= 3
    /\ \E p \in BoundedSeq(DOMAIN adj, 4) : Len(p) = 4 /\ IsPathOf(adj, p, from, to)

----------------------------------------------------------------------------
\* C11: DepthFirstSearch returns null exactly when target is not reachable
\* from start; otherwise it returns a sequence that starts at start, ends at
\* target, joins consecutive nodes by adjacency-list edges and repeats no node
\* (start = target gives the one-node path).
NoRepeat(p) == \A i, j \in 1..Len(p) : i # j => p[i] # p[j]

C11_DFSPath ==
    phase = "done" =>
        /\ (result = Null) <=> ~Reachable(adj, from, to)
        /\ result # Null =>
              /\ result.kind = "path"
              /\ IsPathOf(adj, result.path, from, to)
              /\ NoRepeat(result.path)
              /\ (from = to => result.path = <<from>>)

\* The same statement on graphs and start nodes without a falsy key.
DFSPathOverTruthyNodes ==
    (~Falsy(from) /\ \A n \in ReachableFrom(adj, {from}) : ~Falsy(n)) => C11_DFSPath

DFSPathOverTruthyNodes_Witness ==
    /\ phase = "done"
    /\ result # Null
    /\ Len(result.path) >= 4
    /\ Len(result.path) > MinNodes(adj, from, to)

----------------------------------------------------------------------------
\* The adjacency list of u as the claims read it (empty for an unknown node).
ListOf(g, u) == IF u \in DOMAIN g THEN g[u] ELSE <<>>

\* An entry {v, w} occurs in u's list exactly as often as {u, w} in v's list.
Reciprocal(g) ==
    \A e \in Edges(g) :
        Count(ListOf(g, e.from), [node |-> e.to, weight |-> e.weight])
            = Count(ListOf(g, e.to), [node |-> e.from, weight |-> e.weight])

\* C12: after any sequence of addNode calls and undirected addEdge calls, for
\* all nodes u, v and every weight w, u's adjacency list contains {v, w} exactly
\* as many times as v's list contains {u, w}; right after addEdge(u, v, w),
\* getNeighbors(u) contains {v, w} and getNeighbors(v) contains {u, w}.
C12_UndirectedReciprocal ==
    /\ Reciprocal(adj)
    /\ result.kind = "addEdge" =>
          /\ Count(ListOf(adj, result.from),
                   [node |-> result.to, weight |-> result.weight]) >= 1
          /\ Count(ListOf(adj, result.to),
                   [node |-> result.from, weight |-> result.weight]) >= 1

C12_Witness ==
    /\ result.kind = "addEdge"
    /\ result.from # result.to
    /\ nCalls >= 2
    /\ Count(ListOf(adj, result.from),
             [node |-> result.to, weight |-> result.weight]) >= 2

\* C13: addNode(v) returns true and adds v with an empty adjacency list when v
\* is absent; when v is present it returns false and leaves the whole graph,
\* v's adjacency list included, unchanged, so repeating addNode(v) has the
\* effect of calling it once.
C13_AddNodeIdempotent ==
    [][result'.kind = "addNode" =>
          LET v == result'.node
          IN  /\ v \in DOMAIN adj'
              /\ IF v \in DOMAIN adj
                 THEN /\ result'.returned = FALSE
                      /\ adj' = adj
                 ELSE /\ result'.returned = TRUE
                      /\ DOMAIN adj' = DOMAIN adj \cup {v}
                      /\ adj'[v] = <<>>
                      /\ \A n \in DOMAIN adj : adj'[n] = adj[n]]_vars

C13_Witness ==
    /\ result.kind = "addNode"
    /\ result.returned = FALSE
    /\ Len(ListOf(adj, result.node)) >= 2

----------------------------------------------------------------------------
\* Reference notions the claims about LinkedList are stated with.

\* The Node references met from h by following next, at most fuel of them.
RECURSIVE ChainOf(_, _, _)
ChainOf(nodes, h, fuel) ==
    IF h = 0 \/ fuel = 0 THEN <<>>
    ELSE <<h>> \o ChainOf(nodes, nodes[h].next, fuel - 1)

Cells(L) == ChainOf(L.nodes, L.head, Len(L.nodes) + 1)

Elements(L) == [i \in 1..Len(Cells(L)) |-> L.nodes[Cells(L)[i]].data]

Front(q) == SubSeq(q, 1, Len(q) - 1)

RemoveAt(q, i) == SubSeq(q, 1, i - 1) \o SubSeq(q, i + 1, Len(q))

Strings(q) == IF q = <<>> THEN <<"Empty List">> ELSE [i \in 1..Len(q) |-> stringify(q[i])]

\* size counts the nodes reachable from head, tail is the last of them (null
\* when there is none) and tail.next is null.
ListInvariant(L) ==
    /\ L.size = Len(Cells(L))
    /\ IF Cells(L) = <<>> THEN L.tail = 0
       ELSE /\ L.tail = Cells(L)[Len(Cells(L))]
            /\ L.nodes[L.tail].next = 0

\* C14: after any sequence of insert, delete, deleteBy, pop and shift on a
\* LinkedList (starting from the constructor), size equals the number of nodes
\* reachable from head by following next, tail is the last of those nodes and
\* tail.next is null.
C14_ListInvariant == ListInvariant(list)

\* The same invariant over the sequences of insert, delete and deleteBy only.
ListInvariantWithoutPopShift == listCall.op \in {"constructor", "insert", "delete", "deleteBy"} => ListInvariant(list)

ListInvariantWithoutPopShift_Witness ==
    /\ listCall.op = "deleteBy"
    /\ listCall.ret = <<TRUE>>
    /\ Len(listNodes) = 3
    /\ listSize = 1
    /\ listHead = 2

\* C15: pop() on a non-empty LinkedList returns the value of the last element
\* and removes it: afterwards iteration, toString, peek and search see the
\* previous sequence without its last element, for every length including a
\* one-element list (which becomes empty); pop() on an empty list returns
\* undefined and changes nothing.
PopEffect(minLen) ==
    listCall'.op = "pop" =>
        LET before == Elements(list)
        IN  IF before = <<>>
            THEN /\ listCall'.ret = <<>>
                 /\ list' = list
            ELSE Len(before) >= minLen =>
                 /\ listCall'.ret = <<before[Len(before)]>>
                 /\ listIterator(list') = Front(before)
                 /\ listToString(list') = Strings(Front(before))
                 /\ listPeek(list') = IF Len(before) = 1 THEN <<>>
                                      ELSE <<before[Len(before) - 1]>>
                 /\ \A value \in ListValues :
                        listSearch(list', value) <=> value \in Range(Front(before))
                 /\ (Len(before) = 1 => listIsEmpty(list'))

C15_PopRemovesLast == [][PopEffect(1)]_vars

\* The same statement for the lists of two or more elements and the empty list.
PopRemovesLastOfLongerList == [][PopEffect(2)]_vars

PopRemovesLastOfLongerList_Witness ==
    /\ listCall.op = "pop"
    /\ listCall.ret # <<>>
    /\ Len(Elements(list)) >= 2
    /\ ListInvariant(list)

\* C16: shift() on a non-empty LinkedList removes the head: afterwards
\* peekFirst() returns the former second element, and after shifting the only
\* element the list is empty: isEmpty() is true and peek() and peekFirst() both
\* return undefined.
C16_ShiftRemovesHead ==
    [][(listCall'.op = "shift" /\ Elements(list) # <<>>) =>
          LET before == Elements(list)
          IN  /\ Len(before) >= 2 => listPeekFirst(list') = <<before[2]>>
              /\ Len(before) = 1 =>
                    /\ listIsEmpty(list')
                    /\ listPeek(list') = <<>>
                    /\ listPeekFirst(list') = <<>>]_vars

\* C17: delete(value) on a LinkedList built by insert removes exactly the first
\* node from the head whose data equals value and returns true, keeping the
\* order of the remaining elements and updating head or tail when the first or
\* last node is removed; if no node matches it returns false and the list
\* (elements, head, tail, size) is unchanged.
C17_DeleteRemovesFirstMatch ==
    [][listCall'.op = "delete" =>
          LET c == Cells(list)
              hit == {i \in 1..Len(c) : listNodes[c[i]].data = listCall'.arg[1]}
          IN  IF hit # {}
              THEN /\ listCall'.ret = <<TRUE>>
                   /\ Cells(list') = RemoveAt(c, Min(hit))
                   /\ Elements(list') = RemoveAt(Elements(list), Min(hit))
                   /\ ListInvariant(list')
                   /\ listHead' = IF Len(c) = 1 THEN 0
                                  ELSE IF Min(hit) = 1 THEN c[2] ELSE c[1]
              ELSE /\ listCall'.ret = <<FALSE>>
                   /\ list' = list]_vars

C17_Witness ==
    /\ listCall.op = "delete"
    /\ listCall.ret = <<TRUE>>
    /\ Cells(list) = <<1, 3, 4>>
    /\ listSize = 3
    /\ listCall.arg[1] \in Range(Elements(list))

----------------------------------------------------------------------------
\* The nodes of a chain in the order they are first met from h.
RECURSIVE FirstVisits(_, _, _)
FirstVisits(nodes, h, seen) ==
    IF h = 0 \/ h \in seen THEN <<>>
    ELSE <<h>> \o FirstVisits(nodes, nodes[h].next, seen \cup {h})

\* The node at which the chain closes on itself (0 when it ends in null).
CycleEntry(nodes, h) ==
    LET met == FirstVisits(nodes, h, {}) IN nodes[met[Len(met)]].next

CycleReturned == fromCall.pc \in {"walk", "done"}

\* C18: for every finite node chain, cycle(root) returns null if the chain is
\* acyclic and otherwise the node at which the cycle is entered, for any tail
\* and cycle length, a cycle at the root and a self-loop included.
C18_CycleEntry ==
    CycleReturned => fromCall.cycle = CycleEntry(fromCall.chain, fromCall.root)

C18_Witness ==
    /\ CycleReturned
    /\ fromCall.cycle = 3
    /\ Len(fromCall.chain) = 5

\* C19: from(root) terminates for every finite node chain; on a cyclic chain
\* it cuts the link closing the cycle, so that the list is finite, its tail is
\* the last node met before the cycle entry comes up again, and tail.next is
\* null.
FromResult ==
    LET met == FirstVisits(fromCall.chain, fromCall.root, {})
    IN  /\ listHead = fromCall.root
        /\ Cells(list) = met
        /\ listTail = met[Len(met)]
        /\ listNodes[listTail].next = 0
        /\ \A i \in 1..(Len(met) - 1) : listNodes[met[i]] = fromCall.chain[met[i]]

C19_FromTerminates ==
    /\ <>(fromCall.pc = "done")
    /\ [](fromCall.pc = "done" => FromResult)

C19_Witness ==
    /\ fromCall.pc = "done"
    /\ CycleEntry(fromCall.chain, fromCall.root) = 1
    /\ Len(fromCall.chain) >= 3
    /\ listTail = Len(fromCall.chain)

----------------------------------------------------------------------------
\* C20: for any sequence of enqueue and dequeue operations on a Queue,
\* including sequences that empty the queue and then refill it, values are
\* dequeued in exactly the order they were enqueued: each dequeue returns the
\* oldest enqueued value not yet dequeued (and null when there is none), so
\* enqueue(v1..vn) followed by n dequeues returns v1..vn.
C20_DequeueInEnqueueOrder ==
    [][queueLog'.last = "dequeue" =>
          IF Len(queueLog.dequeued) < Len(queueLog.enqueued)
          THEN /\ queueLog'.ret = <<queueLog.enqueued[Len(queueLog.dequeued) + 1]>>
               /\ queueLog'.dequeued
                     = SubSeq(queueLog.enqueued, 1, Len(queueLog.dequeued) + 1)
          ELSE /\ queueLog'.ret = <<>>
               /\ queueLog'.dequeued = queueLog.enqueued]_vars

C20_Witness ==
    /\ queueLog.last = "dequeue"
    /\ queueLog.ret # <<>>
    /\ queueLog.refilled
    /\ Len(queueLog.dequeued) >= 3
    /\ queueLog.dequeued = queueLog.enqueued
    /\ Cardinality(Range(queueLog.dequeued)) >= 2

----------------------------------------------------------------------------
\* C21: dequeue() and peek() on an empty Queue return null and leave the queue
\* unchanged: size stays 0 and isEmpty() stays true; and in every reachable
\* state isEmpty() is true exactly when size is 0.
AllDequeued == Len(queueLog.dequeued) = Len(queueLog.enqueued)

C21_EmptyQueueCalls ==
    [][/\ (queueLog'.last \in {"dequeue", "peek"} /\ AllDequeued) =>
             /\ queueLog'.ret = <<>>
             /\ queueObject' = queueObject
             /\ queueSize' = 0
             /\ queueIsEmpty(queueObject')
       /\ queueIsEmpty(queueObject) <=> queueSize = 0
       /\ queueIsEmpty(queueObject') <=> queueSize' = 0
       /\ queueSize' >= 0]_vars

C21_Witness ==
    /\ queueLog.last = "dequeue"
    /\ queueLog.ret = <<>>
    /\ Len(queueLog.enqueued) >= 2
    /\ queueTail # 0
    /\ queueSize = 0

----------------------------------------------------------------------------
\* x is a least (greatest) element of st under the comparator.
IsMinimumOf(x, st) ==
    /\ \E i \in 1..Len(st) : stackCompare(x, st[i]) = 0
    /\ \A i \in 1..Len(st) : stackCompare(x, st[i]) <= 0

IsMaximumOf(x, st) ==
    /\ \E i \in 1..Len(st) : stackCompare(x, st[i]) = 0
    /\ \A i \in 1..Len(st) : stackCompare(x, st[i]) >= 0

MinMaxCorrect ==
    IF stackItems = <<>>
    THEN getMin(minMaxStack) = <<>> /\ getMax(minMaxStack) = <<>>
    ELSE /\ getMin(minMaxStack) # <<>> \/ <<>> \in Range(stackItems)
         /\ getMax(minMaxStack) # <<>> \/ <<>> \in Range(stackItems)
         /\ IsMinimumOf(getMin(minMaxStack), stackItems)
         /\ IsMaximumOf(getMax(minMaxStack), stackItems)

\* C22: for all sequences of push and pop on a MinMaxStack (empty or
\* pre-seeded through the constructor), after each operation getMin() and
\* getMax() equal the true minimum and maximum under the comparator of the
\* elements currently in the stack, and both return null when the stack is
\* empty.
C22_MinMaxCorrect == MinMaxCorrect

\* The same statement while the shadow arrays are as deep as the stack.
MinMaxCorrectWhileInStep ==
    (Len(minStack) = Len(stackItems) /\ Len(maxStack) = Len(stackItems)) => MinMaxCorrect

MinMaxCorrectWhileInStep_Witness ==
    /\ stackCall.op = "pop"
    /\ stackCall.ret = <<2>>
    /\ stackItems = << <<1>>, <<0>> >>
    /\ minStack = << <<1>>, <<0>> >>
    /\ maxStack = << <<1>>, <<1>> >>

\* C23: after construction and after every push and pop on a MinMaxStack, in
\* any sequence and for any pushed values, the min shadow array and the max
\* shadow array each have exactly as many entries as the primary stack.
C23_ShadowDepth ==
    /\ Len(minStack) = Len(stackItems)
    /\ Len(maxStack) = Len(stackItems)

\* The same statement for every call except the pop of a null element.
ShadowDepthKeptUnlessNullPopped ==
    [][(stackCall'.op = "pop" /\ stackItems # <<>> /\ Top(stackItems) = <<>>)
       \/ /\ Len(minStack') - Len(stackItems') = Len(minStack) - Len(stackItems)
          /\ Len(maxStack') - Len(stackItems') = Len(maxStack) - Len(stackItems)]_vars

ShadowDepthKeptUnlessNullPopped_Witness ==
    /\ stackCall.op = "pop"
    /\ stackCall.ret # <<>>
    /\ Len(stackItems) = 2
    /\ Len(minStack) = 2

----------------------------------------------------------------------------
\* C24: an iterator of a Stack yields exactly the elements the stack held when
\* the iterator was created, from the top to the bottom, and then reports
\* done, whatever pushes and pops happen between its next() calls; a newly
\* created iterator starts again from the top of the stack as it is then.

\* s from its last element to its first.
Reversed(s) == [i \in 1..Len(s) |-> s[Len(s) + 1 - i]]

C24_IteratorSnapshot ==
    [][/\ stackIter'.state # "none" =>
            /\ Len(stackIter'.yielded) <= Len(stackIter'.created)
            /\ stackIter'.yielded
                 = SubSeq(Reversed(stackIter'.created), 1, Len(stackIter'.yielded))
            /\ stackIter'.state = "done"
                 => stackIter'.yielded = Reversed(stackIter'.created)
       /\ stackCall'.op = "next" =>
            (stackIter'.state = "done"
                <=> stackIter.yielded = Reversed(stackIter.created))
       /\ stackCall'.op = "iterator" =>
            /\ stackIter'.created = stackItems
            /\ stackIter'.yielded = <<>>
            /\ stackIter'.state = "active"]_vars

\* The iterator has finished over a two-element snapshot after the stack was
\* changed underneath it.
C24_Witness ==
    /\ stackIter.state = "done"
    /\ Len(stackIter.created) = 2
    /\ stackIter.created[1] # stackIter.created[2]
    /\ stackItems # stackIter.created
    /\ stackCall.op = "next"

----------------------------------------------------------------------------
\* C25: after delete(v) on a BinarySearchTree searchTree(v) returns false and
\* every other value that was in the tree is still found, wherever v was
\* (leaf, node with one child, node with two children, root); delete of a
\* value that is not in the tree changes nothing.

\* The values held by the nodes of t.
RECURSIVE ValuesIn(_)
ValuesIn(t) == IF t = <<>> THEN {} ELSE {t[1]} \cup ValuesIn(t[2]) \cup ValuesIn(t[3])

\* The number of nodes of t.
RECURSIVE NodeCount(_)
NodeCount(t) == IF t = <<>> THEN 0 ELSE 1 + NodeCount(t[2]) + NodeCount(t[3])

C25_DeleteRemoves ==
    [][treeCall'.op = "delete" =>
          LET v == treeCall'.value
          IN  /\ searchTree(treeRoot', v) = "false"
              /\ \A w \in ValuesIn(treeRoot) \ {v} : searchTree(treeRoot', w) = "true"
              /\ v \notin ValuesIn(treeRoot) => treeRoot' = treeRoot]_vars

\* What holds of delete(v): when every value is held by one node only and the
\* node holding v is not a root that lacks a child, v is gone afterwards and
\* every other value is still found; a root that lacks a child is not removed;
\* delete of a value not in a tree changes nothing.
DeleteRemovesBelowRoot ==
    [][treeCall'.op = "delete" =>
          LET v == treeCall'.value
              rootLacksChild == /\ treeRoot # <<>>
                                /\ treeRoot[1] = v
                                /\ (treeRoot[2] = <<>> \/ treeRoot[3] = <<>>)
          IN  /\ (/\ v \in ValuesIn(treeRoot)
                  /\ NodeCount(treeRoot) = Cardinality(ValuesIn(treeRoot))
                  /\ ~rootLacksChild)
                    => /\ ValuesIn(treeRoot') = ValuesIn(treeRoot) \ {v}
                       /\ searchTree(treeRoot', v) = "false"
              /\ \A w \in ValuesIn(treeRoot) \ {v} : searchTree(treeRoot', w) = "true"
              /\ rootLacksChild => treeRoot' = treeRoot
              /\ v \notin ValuesIn(treeRoot) => treeRoot' = treeRoot]_vars

\* delete removed a root that had two children, from a tree of four values.
DeleteRemovesBelowRoot_Witness ==
    /\ treeCall.op = "delete"
    /\ treeCall.value \notin ValuesIn(treeRoot)
    /\ Cardinality(ValuesIn(treeRoot)) = 3
    /\ NodeCount(treeRoot) = 3
    /\ treeRoot[1] > treeCall.value
    /\ treeRoot[2] # <<>>
    /\ treeRoot[2][1] < treeCall.value

----------------------------------------------------------------------------
\* C26: the chained HashTable behaves as a map from keys to values, for every
\* table size from 1 on and for keys that collide or not: get(k) returns the
\* value of the latest insert(k, ...) not followed by delete(k) and undefined
\* otherwise, insert of a key that is present overwrites and leaves count
\* unchanged, delete(k) returns true exactly when k was present, and count is
\* the number of distinct keys stored.

\* The keys the reference map holds.
Stored(ref) == {k \in DOMAIN ref : ref[k] # <<>>}

C26_TableIsMap ==
    [][/\ \A k \in TableKeys : tableGet(hashObject', k) = hashRef'[k]
       /\ hashCount' = Cardinality(Stored(hashRef'))
       /\ hashCall'.op = "get" => hashCall'.ret = hashRef[hashCall'.key]
       /\ hashCall'.op = "delete" =>
              (hashCall'.deleted <=> hashCall'.key \in Stored(hashRef))
       /\ (hashCall'.op = "insert" /\ hashCall'.key \in Stored(hashRef)) =>
              hashCount' = hashCount]_vars

\* Three keys in one bucket, the middle one deleted and the first one
\* overwritten.
C26_Witness ==
    /\ Len(hashTable) = 1
    /\ hashTable[1] # <<>>
    /\ Len(hashTable[1][1].nodes) = 3
    /\ hashCount = 2
    /\ hashCall.op = "insert"
    /\ hashCall.key = hashTable[1][1].nodes[1].data.key
    /\ hashTable[1][1].nodes[hashTable[1][1].head].next = 3
    /\ hashTable[1][1].nodes[1].data.value = 2

----------------------------------------------------------------------------
\* C27: after LinkedList.from(root) has returned, the size of the list is the
\* number of distinct nodes of the chain, which is also the number of
\* elements iterating the list produces, for every acyclic chain and for every
\* cyclic chain wherever the cycle begins (at a later node, at root, or as a
\* self-loop).
C27_FromSize ==
    fromCall.pc = "done" =>
        /\ listSize = Len(FirstVisits(fromCall.chain, fromCall.root, {}))
        /\ listSize = Len(listIterator(list))

\* What holds of the size from(root) sets: it is the number of distinct nodes
\* unless the cycle begins at root, and then it is twice that number.
FromSizeDoubledAtRoot ==
    fromCall.pc = "done" =>
        LET distinct == Len(FirstVisits(fromCall.chain, fromCall.root, {}))
        IN  /\ Len(listIterator(list)) = distinct
            /\ listSize = IF CycleEntry(fromCall.chain, fromCall.root) = fromCall.root
                           THEN 2 * distinct
                           ELSE distinct

FromSizeDoubledAtRoot_Witness ==
    /\ fromCall.pc = "done"
    /\ CycleEntry(fromCall.chain, fromCall.root) = 3
    /\ listSize = 5

----------------------------------------------------------------------------
\* C28: whenever dijkstra returns a path for a target reachable from from in a
\* graph with non-negative weights, the path starts at from, ends at to, joins
\* every consecutive pair of nodes by an edge of the graph, and the tentative
\* distance recorded for to equals the total weight of the path; the distance
\* and predecessor recorded for a node never change after the node has been
\* marked visited.
C28_PathMatchesDistance ==
    [][/\ (/\ phase' = "done"
           /\ result'.kind = "path"
           /\ ~HasNegativeWeight(adj')
           /\ Reachable(adj', from', to')) =>
              /\ IsPathOf(adj', result'.path, from', to')
              /\ nodeMap'[to'].dist = <<PathWeight(adj', result'.path)>>
       /\ phase = "dijkstra" =>
              \A node \in visited : node \in DOMAIN nodeMap => nodeMap'[node] = nodeMap[node]]_vars

\* A path of three nodes was returned in a graph where an edge leads back to
\* a visited node and a node was popped twice.
C28_Witness ==
    /\ phase = "done"
    /\ result.kind = "path"
    /\ ~HasNegativeWeight(adj)
    /\ Len(result.path) >= 3
    /\ nodeMap[to].dist = <<PathWeight(adj, result.path)>>
    /\ \E e \in Edges(adj) : e.to = from /\ e.from # from
    /\ \E node \in DOMAIN relaxRuns : relaxRuns[node] >= 2

----------------------------------------------------------------------------
\* C29: dijkstra terminates on every finite graph with non-negative edge
\* weights, with cycles, zero-weight edges, parallel edges and self-loops: a
\* node may be pushed on the heap several times, but only finitely many
\* entries are ever inserted (at most one for from and one for each edge) and
\* the heap eventually becomes empty.

\* The sum of f over the elements of S.
RECURSIVE SumOver(_, _)
SumOver(f, S) ==
    IF S = {} THEN 0
    ELSE LET x == CHOOSE y \in S : TRUE IN f[x] + SumOver(f, S \ {x})

\* The entries pushed on the heap so far: those popped and those still on it.
Pushed == SumOver(relaxRuns, DOMAIN relaxRuns) + Len(p_queue)

C29_DijkstraTerminates ==
    /\ []<>(phase # "dijkstra")
    /\ [](phase = "done" => isEmpty(p_queue))
    /\ [](Pushed <= Cardinality(Edges(adj)) + 1)

\* dijkstra has returned on a graph with a cycle through from, a zero-weight
\* edge and a node that was pushed and popped twice.
C29_Witness ==
    /\ phase = "done"
    /\ isEmpty(p_queue)
    /\ result.kind = "path"
    /\ \E e \in Edges(adj) : e.to = from /\ Reachable(adj, from, e.from)
    /\ \E e \in Edges(adj) : e.weight = 0
    /\ \E node \in DOMAIN relaxRuns : relaxRuns[node] >= 2

----------------------------------------------------------------------------
\* C30: popMin() on an empty MinHeap returns null and leaves the heap empty
\* (isEmpty() is still true, no element is added), so that a following
\* insert(x) and popMin() returns x.
C30_PopMinOnEmptyGivesNull ==
    [][(lastOp' = "popMin" /\ isEmpty(heap)) =>
          /\ popMinReturns(heap) = "null"
          /\ isEmpty(heap')
          /\ heap' = <<>>
          /\ \A x \in Values :
                popMinValue(insert("numeric", heap', x)) = <<x>>]_vars

\* What holds of popMin() on an empty MinHeap: it returns undefined, not null;
\* the heap stays empty, and a following insert(x) and popMin() returns x.
PopMinOnEmptyGivesUndefined ==
    [][(lastOp' = "popMin" /\ isEmpty(heap)) =>
          /\ popMinReturns(heap) = "undefined"
          /\ lastRet' = <<>>
          /\ isEmpty(heap')
          /\ heap' = <<>>
          /\ out' = out
          /\ \A x \in Values :
                /\ popMinValue(insert("numeric", heap', x)) = <<x>>
                /\ isEmpty(popMinHeap("numeric", insert("numeric", heap', x)))]_vars

\* popMin() was called on a heap that earlier pops had emptied.
PopMinOnEmptyGivesUndefined_Witness ==
    /\ lastOp = "popMin"
    /\ lastRet = <<>>
    /\ isEmpty(heap)
    /\ Len(out) >= 2
    /\ nIns > 0

----------------------------------------------------------------------------
\* C6: after construction and after every insert and popMin, every element of
\* the heap array compares >= its parent: compare(heap[parent(i)], heap[i]) <= 0
\* for every index i > 0.
HeapOrder(cmp, h) ==
    \A i \in 1..(Len(h) - 1) : Compare(cmp, At(h, parent(i)), At(h, i)) <= 0

C6_HeapInvariant == HeapOrder("numeric", heap)

C6_Witness ==
    /\ lastOp = "popMin"
    /\ nIns > 0
    /\ Len(heap) >= 4
    /\ Cardinality(Range(heap)) >= 3

\* C7: a popMin on a non-empty heap returns an element that compares <= every
\* element the heap held, and leaves exactly the former elements minus one
\* occurrence of the returned one.
C7_PopMinReturnsMinimum ==
    [][(lastOp' = "popMin" /\ Len(heap) > 0) =>
          /\ lastRet' # <<>>
          /\ \A i \in 1..Len(heap) : numericCompare(lastRet'[1], heap[i]) <= 0
          /\ SameElements(Append(heap', lastRet'[1]), heap)]_vars

C7_Witness ==
    /\ lastOp = "popMin"
    /\ lastRet # <<>>
    /\ nIns > 0
    /\ Len(heap) >= 3
    /\ lastRet[1] \in Range(heap)

\* C8: popping a bulk-built heap until it is empty returns the constructor's
\* input in non-decreasing order; [5,3,8,1] yields 1, 3, 5, 8.
C8_PopAllSorts ==
    (nIns = 0 /\ isEmpty(heap)) =>
        /\ SameElements(out, args)
        /\ NonDecreasing(out)
        /\ (args = <<5, 3, 8, 1>> => out = <<1, 3, 5, 8>>)

C8_Witness ==
    /\ args = <<5, 3, 8, 1>>
    /\ nIns = 0
    /\ isEmpty(heap)
    /\ out = <<1, 3, 5, 8>>

\* C9 as stated: over any sequence of insert and popMin, the values returned
\* by successive popMin calls are non-decreasing.
C9_PopsNonDecreasing == NonDecreasing(out)

\* C9 amended: the values returned by successive popMin calls are
\* non-decreasing as long as no insert was given a value smaller than a value
\* already popped.
C9_PopsNonDecreasingUnlessLowInsert == ~lowInsert => NonDecreasing(out)

C9_Witness ==
    /\ ~lowInsert
    /\ nIns > 0
    /\ lastOp = "popMin"
    /\ Len(out) >= 3
    /\ Cardinality(Range(out)) >= 2

====
